---- MODULE Spec2Model ----
(***************************************************************************)
(* Fund-document processing backend: the fund record table (DynamoDB) and  *)
(* every Lambda handler of the repository that reads or writes it.         *)
(*                                                                         *)
(* One fund record is one item of the table, keyed by fundId.  Handlers    *)
(* run as independent tasks; each DynamoDB call is one atomic step, and    *)
(* the local computation between two calls is folded into the step of the  *)
(* call that follows it.  Calls to S3, Textract and Bedrock made by the    *)
(* extraction pipeline do not touch the table; their results are inputs    *)
(* chosen when the step after them is taken.                               *)
(*                                                                         *)
(* Attributes of an item that no handler ever reads back and that play no  *)
(* part in the status lifecycle (fundName, bucket, schemaPath,             *)
(* uploadPrefix, resultPrefix, ttl) are not tracked.  The upload namespace *)
(* of a fund in the documents bucket, the manifest (inputFiles) and the    *)
(* processing job sent at upload completion are tracked by the upload      *)
(* specification, whose actions follow the upload handlers call by call;   *)
(* the other specifications take the bucket listing as an input.           *)
(***************************************************************************)
EXTENDS Integers, Sequences, FiniteSets, TLC

\* ------------------------------------------------------------------ bounds
MaxInvocations == 3     \* handler invocations (and browser uploads) started
                        \* in one behaviour
MaxTime == 1            \* the wall clock takes the values 0..MaxTime
MaxBatch == 2           \* SQS records delivered to one consumer invocation
MaxObjects == 1001      \* non-empty objects under one fund's files/ prefix
MaxFiles == 11          \* input files named by one processing job
MaxBlocks == 2          \* blocks of one Textract result

\* ListObjectsV2 returns at most this many keys in one response when the
\* request names no MaxKeys.
MaxKeysDefault == 1000

\* chunk(docs, 5): the documents of one inference call.
GroupSize == 5

\* ------------------------------------------------------------- value sets
FundIds == {"f1"}
\* The funds of the table: FundIds, and one more that only the batches of
\* SpecBatch name.
BatchFundIds == FundIds \cup {"f2"}
FileNames == {"a.pdf", "b.pdf"}
Tasks == {"t1", "t2"}

\* An S3 object key "<fundId>/<fileName>" is kept as the pair of its parts.
ObjectKeys == FundIds \X FileNames

\* An attribute the item does not have, by the type of the attribute.
Absent == "absent"              \* strings
AbsentKey == <<>>               \* object keys and paths
AbsentJson == [absent |-> TRUE] \* JSON texts and objects
AbsentTime == 0 - 1             \* timestamps
NoItem == [none |-> TRUE]       \* GetItem found no item for the key
NoMessage == [nomessage |-> TRUE]   \* the step read no SQS record
NoJob == [nojob |-> TRUE]       \* the step sent no SQS message

VARIABLES
    table,          \* fundId -> item or NoItem
    tasks,          \* task slot -> the invocation it is running
    now,            \* wall clock read by new Date()
    invocations,    \* number of invocations started so far
    returned,       \* what the step just taken has returned to its caller
    received,       \* the SQS record body the step just taken has read
    bucket,         \* fundId -> the objects under "<fundId>/files/" and
                    \* "<fundId>/archive/" of the documents bucket
    sent            \* the SQS message the step just taken has sent

vars == <<table, tasks, now, invocations, returned, received, bucket, sent>>

\* --------------------------------------------------------------- statuses
\* The status enum of the specification.
SpecStatuses ==
    {"CREATED", "UPLOADING", "UPLOADED", "PROCESSING", "EXTRACTED",
     "SUCCEEDED", "FAILED"}

\* An item with the key attribute only: what UpdateItem starts from when no
\* item exists for the key (UpdateItem creates the item).
EmptyItem ==
    [status |-> Absent, objectKey |-> AbsentKey, fileName |-> Absent,
     documentType |-> Absent, payload |-> AbsentJson, errorReason |-> Absent,
     resultPath |-> AbsentKey, inputFiles |-> AbsentKey,
     resultKey |-> AbsentKey, createdAt |-> AbsentTime,
     updatedAt |-> AbsentTime, extractedAt |-> AbsentTime]

Existing(f) == IF table[f] = NoItem THEN EmptyItem ELSE table[f]

\* ------------------------------------------------------------------ JSON
\* Objects the inference service can return for a document: the object
\* names the document it was extracted from and whether it conforms to the
\* schema.
Extracted(k, ok) == [src |-> k, conforms |-> ok]

\* JSON.stringify(x): the compact text of x.  JSON.stringify(x, null, 2):
\* the indented text of x.  JSON.parse gives back the object of either.
Stringify(x) == [text |-> "compact", of |-> x]
StringifyPretty(x) == [text |-> "indented", of |-> x]
Parse(s) == s.of

\* --------------------------------------------------------------- messages
TypeErrorMsg == "Cannot read properties of undefined (reading 'status')"
ConditionFailedMsg == "The conditional request failed"
InvalidJsonMsg == "Model output was not valid JSON"
SchemaFailedMsg == "Schema validation failed: [errors]"

\* The stages of the extraction pipeline, in the order the code runs them.
Stages == <<"head", "config", "load", "ocr", "inference", "parse", "validate">>

\* err.message of the exception a throwing stage raises.
StageError(k) == "stage failed: " \o Stages[k]

\* ------------------------------------------------------------ task slots
\* "let token;" of listKeys: no continuation token yet.  Keys are numbers
\* from 0 on, so that every key is above it.
NoToken == -1

Idle ==
    [op |-> "none", pc |-> "idle", fundId |-> "", fileName |-> "",
     objectKey |-> AbsentKey, documentType |-> "", err |-> "",
     stages |-> 0, n |-> 0, failures |-> <<>>, files |-> <<>>,
     docs |-> <<>>, batches |-> <<>>, calls |-> <<>>, outputs |-> <<>>,
     blocks |-> <<>>, text |-> <<>>, request |-> AbsentJson,
     token |-> NoToken, i |-> 0, ts |-> 0]

Free(t) == tasks[t].pc = "idle"

\* What a handler returns: for the HTTP handlers the status code and the
\* extracted object of the body (if any); for the queue consumer the
\* number of records of the batch and batchItemFailures.  The variable
\* returned holds it in the state the returning step leads to, and Nothing
\* after every other step.
Nothing ==
    [op |-> "none", fundId |-> "", objectKey |-> AbsentKey, code |-> 0,
     body |-> AbsentJson, stages |-> 0, n |-> 0, failures |-> <<>>]

Response(tk, c, b) ==
    [op |-> tk.op, fundId |-> tk.fundId, objectKey |-> tk.objectKey,
     code |-> c, body |-> b, stages |-> tk.stages, n |-> 0,
     failures |-> <<>>]

\* What the caller of an SQS-triggered handler gets when the handler ends
\* with an uncaught exception: the invocation fails, no report is returned.
Thrown(tk) ==
    [Nothing EXCEPT !.op = tk.op, !.fundId = tk.fundId, !.code = 500,
                    !.n = tk.n]

\* An invocation starts in a free slot and goes on as tk.
Start(t, tk) ==
    /\ Free(t)
    /\ invocations < MaxInvocations
    /\ invocations' = invocations + 1
    /\ tasks' = [tasks EXCEPT ![t] = tk]
    /\ returned' = Nothing
    /\ received' = NoMessage
    /\ sent' = NoJob
    /\ UNCHANGED <<table, now, bucket>>

\* An invocation starts and returns r before its first call on the table.
StartReturn(t, r) ==
    /\ Free(t)
    /\ invocations < MaxInvocations
    /\ invocations' = invocations + 1
    /\ returned' = r
    /\ received' = NoMessage
    /\ sent' = NoJob
    /\ UNCHANGED <<table, tasks, now, bucket>>

\* Task t goes on as tk.
Goto(t, tk) ==
    /\ tasks' = [tasks EXCEPT ![t] = tk]
    /\ returned' = Nothing
    /\ received' = NoMessage
    /\ sent' = NoJob
    /\ UNCHANGED <<now, invocations, bucket>>

\* Task t returns r: its slot is free again.
Return(t, r) ==
    /\ tasks' = [tasks EXCEPT ![t] = Idle]
    /\ returned' = r
    /\ received' = NoMessage
    /\ sent' = NoJob
    /\ UNCHANGED <<now, invocations, bucket>>

\* A handler whose only call on the table is a single write runs and
\* returns code c.
Call(op, f, c) ==
    /\ invocations < MaxInvocations
    /\ invocations' = invocations + 1
    /\ returned' = [Nothing EXCEPT !.op = op, !.fundId = f, !.code = c]
    /\ received' = NoMessage
    /\ sent' = NoJob
    /\ UNCHANGED <<tasks, now, bucket>>

\* The upload namespace of a fund: whether the zero-byte marker object
\* "<fundId>/files/" exists, the number of non-empty objects under
\* "<fundId>/files/" (they are "<fundId>/files/doc1" ... "doc<files>"), and
\* the number of objects under "<fundId>/archive/<timestamp>/"; and the
\* objects under "<fundId>/results/", each with its key and its body.
\* Of the documents, "doc1" ... "doc<deleted>" have been deleted again; the
\* archive copies are kept with the timestamp of their prefix and the name
\* of the document.
EmptyPrefix ==
    [marker |-> FALSE, files |-> 0, archive |-> 0, results |-> {},
     deleted |-> 0, copies |-> {}]

Init ==
    /\ table = [f \in BatchFundIds |-> NoItem]
    /\ tasks = [t \in Tasks |-> Idle]
    /\ now = 0
    /\ invocations = 0
    /\ returned = Nothing
    /\ received = NoMessage
    /\ bucket = [f \in BatchFundIds |-> EmptyPrefix]
    /\ sent = NoJob

\* The clock advances between any two steps.
Tick ==
    /\ now < MaxTime
    /\ now' = now + 1
    /\ returned' = Nothing
    /\ received' = NoMessage
    /\ sent' = NoJob
    /\ UNCHANGED <<table, tasks, invocations, bucket>>

\* The FAILED update without its errorReason.
MarkFailedWithoutReason(f, e) ==
    [Existing(f) EXCEPT !.status = "FAILED", !.updatedAt = now]

\* The update every handler uses to mark a record FAILED:
\* "SET #s = :failed, updatedAt = :u, errorReason = :e", no condition.
MarkFailed(f, e) ==
    [Existing(f) EXCEPT !.status = "FAILED", !.updatedAt = now,
                        !.errorReason = e]

\* ============================================================ part_002
\* Item of lines 64-73.
CreatedItem(f, fn) ==
    [EmptyItem EXCEPT !.status = "UPLOADING", !.fileName = fn,
                      !.objectKey = <<f, fn>>, !.createdAt = now,
                      !.updatedAt = now]

\* CreateFundUpload: a fresh "INT#<uuid>" fundId, PutItem guarded by
\* attribute_not_exists(fundId).  The uuid is any fund identifier; when it
\* names an existing item the put is rejected and the catch answers 500.
CreateFundUpload(f, fn) ==
    IF table[f] = NoItem
       THEN /\ table' = [table EXCEPT ![f] = CreatedItem(f, fn)]
            /\ Call("create", f, 200)
       ELSE /\ table' = table
            /\ Call("create", f, 500)

\* ==================================================== part_004 (second)
\* Fund init: upsertFundRecord is an UpdateItem without a condition.
upsertFundRecord(f) ==
    [Existing(f) EXCEPT !.status = "INITIATED",
                        !.updatedAt = now,
                        !.createdAt = IF @ = AbsentTime THEN now ELSE @]

\* The handler puts the prefix markers, archives earlier uploads, upserts
\* the record and presigns.  An S3 failure before the upsert answers 500
\* and leaves the table alone.
FundInit(f, s3ok) ==
    IF s3ok
       THEN /\ table' = [table EXCEPT ![f] = upsertFundRecord(f)]
            /\ Call("init", f, 200)
       ELSE /\ table' = table
            /\ Call("init", f, 500)

\* ===================================================== FundDocumentUpload
\* Direct upload: after the S3 puts, PutCommand without a condition replaces
\* the whole item.
DirectUploadItem(f) ==
    [EmptyItem EXCEPT !.status = "UPLOADED",
                      !.resultPath = <<f, "results/rules-engine.json">>,
                      !.createdAt = now,
                      !.updatedAt = now]

\* valid: the path fundId equals the body fundId and documents is a
\* non-empty array; otherwise 400 is answered before any write.
FundDocumentUpload(f, valid) ==
    IF valid
       THEN /\ table' = [table EXCEPT ![f] = DirectUploadItem(f)]
            /\ Call("upload", f, 200)
       ELSE /\ table' = table
            /\ Call("upload", f, 400)

\* ============================================================ part_005
\* The update without the result location.
updateFundStatusWithoutResultPath(f, st, rp) ==
    [Existing(f) EXCEPT !.status = st, !.updatedAt = now]

\* Batched consumer: "SET #s = :s, updatedAt = :u [, resultPath = :r]
\* [, errorMessage = :e]", no condition.  The handler only ever calls it
\* with status SUCCEEDED and the result path.
updateFundStatus(f, st, rp) ==
    [Existing(f) EXCEPT !.status = st,
                        !.updatedAt = now,
                        !.resultPath = IF rp = AbsentKey THEN @ ELSE rp]

\* One record of the batch: manifest, grouped inference calls and the
\* result write do not touch the table; when one of them throws, the
\* handler ends with that exception and without an update.
BatchedProcess(f, ok) ==
    IF ok
       THEN /\ table' = [table EXCEPT ![f] =
                           updateFundStatus(f, "SUCCEEDED",
                               <<f, "results/rules-engine.json">>)]
            /\ Call("batched", f, 200)
       ELSE /\ table' = table
            /\ Call("batched", f, 500)

\* ==================================================== part_004 (first)
\* Upload completion.
CompleteStart(t, f) ==
    Start(t, [Idle EXCEPT !.op = "complete", !.pc = "get", !.fundId = f])

\* Lines 46-69: GetCommand, 404 when there is no item; then list
\* <fundId>/files/ and keep the objects of size > 0.  hasFiles: the listing
\* has such an object.
CompleteGet(t, hasFiles) ==
    LET tk == tasks[t] IN
    /\ tk.op = "complete" /\ tk.pc = "get"
    /\ table' = table
    /\ IF table[tk.fundId] = NoItem THEN Return(t, Response(tk, 404, AbsentJson))
       ELSE IF ~hasFiles THEN Return(t, Response(tk, 400, AbsentJson))
       ELSE Goto(t, [tk EXCEPT !.pc = "update"])

\* "SET #s = :s, inputFiles = :i, schemaPath = :sc, resultPath = :r,
\* updatedAt = :u" under attribute_exists(fundId).
CompleteItem(f) ==
    [table[f] EXCEPT !.status = "UPLOADED",
                     !.resultPath = <<f, "results/rules-engine.json">>,
                     !.updatedAt = now]

\* Lines 89-140: the update, then the SQS send.  A rejected condition goes
\* to the catch (500); no handler deletes an item, so it holds here.
CompleteUpdate(t) ==
    LET tk == tasks[t] f == tk.fundId IN
    /\ tk.op = "complete" /\ tk.pc = "update"
    /\ IF table[f] # NoItem
          THEN /\ table' = [table EXCEPT ![f] = CompleteItem(f)]
               /\ Return(t, Response(tk, 200, AbsentJson))
          ELSE /\ table' = table
               /\ Return(t, Response(tk, 500, AbsentJson))

\* ============================================================ part_000
\* HTTP extraction handler (POST /funds/{fundId}/extract).
JsonSyntaxMsg == "Unexpected token in JSON"
DbErrorMsg == "DynamoDB request failed"

\* Lines 52-62: JSON.parse(event.body) inside the try (a syntax error goes
\* to the catch, which marks the fund FAILED), then fileName is required.
ExtractStart(t, f, fn, bodyOk) ==
    LET tk == [Idle EXCEPT !.op = "extract", !.fundId = f] IN
    IF ~bodyOk THEN Start(t, [tk EXCEPT !.pc = "catch", !.err = JsonSyntaxMsg])
    ELSE IF fn = "" THEN StartReturn(t, Response(tk, 400, AbsentJson))
    ELSE Start(t, [tk EXCEPT !.pc = "get", !.fileName = fn,
                             !.objectKey = <<f, fn>>])

\* Lines 73-97: GetItem and the idempotency gate.
ExtractGet(t) ==
    LET tk == tasks[t] it == table[tk.fundId] IN
    /\ tk.op = "extract" /\ tk.pc = "get"
    /\ table' = table
    /\ IF it = NoItem THEN Return(t, Response(tk, 404, AbsentJson))
       ELSE IF it.status = "PROCESSING"
            THEN Return(t, Response(tk, 409, AbsentJson))
       ELSE IF it.status = "EXTRACTED" /\ it.payload # AbsentJson
            THEN Return(t, Response(tk, 200, Parse(it.payload)))
       ELSE Goto(t, [tk EXCEPT !.pc = "begin"])

\* Line 106: "attribute_not_exists(#s) OR #s IN (:uploading, :failed,
\* :created)".
ExtractCondition(it) ==
    \/ it = NoItem
    \/ it.status = Absent
    \/ it.status \in {"UPLOADING", "FAILED", "CREATED"}

\* Line 105: "SET #s = :processing, updatedAt = :u, objectKey = :k,
\* fileName = :f REMOVE errorReason".
ExtractProcessingItem(f, k, fn) ==
    [Existing(f) EXCEPT !.status = "PROCESSING", !.updatedAt = now,
                        !.objectKey = k, !.fileName = fn,
                        !.errorReason = Absent]

\* Lines 102-117: the conditional update; a rejected condition throws.
ExtractBegin(t) ==
    LET tk == tasks[t] f == tk.fundId IN
    /\ tk.op = "extract" /\ tk.pc = "begin"
    /\ IF ExtractCondition(table[f])
          THEN /\ table' = [table EXCEPT ![f] =
                              ExtractProcessingItem(f, tk.objectKey, tk.fileName)]
               /\ Goto(t, [tk EXCEPT !.pc = "pipeline"])
          ELSE /\ table' = table
               /\ Goto(t, [tk EXCEPT !.pc = "catch", !.err = ConditionFailedMsg])

\* The stages whose failure is an exception that reaches the outer catch:
\* head (122), config (130-141), load (146), ocr (152), inference (201)
\* and validate (ajv.compile, 237).  JSON.parse of the model text (215) is
\* caught locally.
ThrowingStages == {1, 2, 3, 4, 5, 7}

\* Stage k throws after stages 1..k-1 succeeded.
ExtractStageThrows(t, k) ==
    LET tk == tasks[t] IN
    /\ tk.op = "extract" /\ tk.pc = "pipeline"
    /\ table' = table
    /\ Goto(t, [tk EXCEPT !.pc = "catch", !.err = StageError(k), !.stages = k])

\* Lines 213-231: the model text is not JSON; FAILED is written directly
\* and 500 returned.  When that update throws, the outer catch runs.
ExtractInvalidJson(t, dbOk) ==
    LET tk == [tasks[t] EXCEPT !.stages = 6] f == tk.fundId IN
    /\ tk.op = "extract" /\ tk.pc = "pipeline"
    /\ IF dbOk
          THEN /\ table' = [table EXCEPT ![f] = MarkFailed(f, InvalidJsonMsg)]
               /\ Return(t, Response(tk, 500, AbsentJson))
          ELSE /\ table' = table
               /\ Goto(t, [tk EXCEPT !.pc = "catch", !.err = DbErrorMsg])

\* Lines 239-262: the parsed object violates the schema; FAILED is written
\* with the full error list and 422 returned.
ExtractSchemaInvalid(t, dbOk) ==
    LET tk == [tasks[t] EXCEPT !.stages = 7] f == tk.fundId IN
    /\ tk.op = "extract" /\ tk.pc = "pipeline"
    /\ IF dbOk
          THEN /\ table' = [table EXCEPT ![f] = MarkFailed(f, SchemaFailedMsg)]
               /\ Return(t, Response(tk, 422, AbsentJson))
          ELSE /\ table' = table
               /\ Goto(t, [tk EXCEPT !.pc = "catch", !.err = DbErrorMsg])

\* The success update without its payload.
ExtractedItemWithoutPayload(f, x) ==
    [Existing(f) EXCEPT !.status = "EXTRACTED", !.updatedAt = now,
                        !.extractedAt = now, !.errorReason = Absent]

\* Line 270: "SET #s = :extracted, updatedAt = :u, extractedAt = :x,
\* payload = :p REMOVE errorReason", no condition.
ExtractedItem(f, x) ==
    [Existing(f) EXCEPT !.status = "EXTRACTED", !.updatedAt = now,
                        !.extractedAt = now, !.payload = Stringify(x),
                        !.errorReason = Absent]

\* Lines 267-293: all stages succeeded on the document at objectKey.
ExtractPersist(t, dbOk) ==
    LET tk == [tasks[t] EXCEPT !.stages = 7]
        f == tk.fundId
        x == Extracted(tk.objectKey, TRUE) IN
    /\ tk.op = "extract" /\ tk.pc = "pipeline"
    /\ IF dbOk
          THEN /\ table' = [table EXCEPT ![f] = ExtractedItem(f, x)]
               /\ Return(t, Response(tk, 200, x))
          ELSE /\ table' = table
               /\ Goto(t, [tk EXCEPT !.pc = "catch", !.err = DbErrorMsg])

\* Lines 295-332: best-effort FAILED with err.message, then 500.  A failure
\* of the update is logged only.
ExtractCatch(t, dbOk) ==
    LET tk == tasks[t] f == tk.fundId IN
    /\ tk.op = "extract" /\ tk.pc = "catch"
    /\ table' = IF dbOk THEN [table EXCEPT ![f] = MarkFailed(f, tk.err)]
                        ELSE table
    /\ Return(t, Response(tk, 500, AbsentJson))

\* ============================================================ part_003
\* Legacy extraction handler: every failure is answered 500 by a catch
\* that writes nothing.
LegacyStart(t, f, fn) ==
    LET tk == [Idle EXCEPT !.op = "legacy", !.fundId = f] IN
    IF fn = "" THEN StartReturn(t, Response(tk, 500, AbsentJson))
    ELSE Start(t, [tk EXCEPT !.pc = "get", !.fileName = fn,
                             !.objectKey = <<f, fn>>])

\* Lines 58-65.
LegacyGet(t) ==
    LET tk == tasks[t] IN
    /\ tk.op = "legacy" /\ tk.pc = "get"
    /\ table' = table
    /\ IF table[tk.fundId] = NoItem
          THEN Return(t, Response(tk, 500, AbsentJson))
          ELSE Goto(t, [tk EXCEPT !.pc = "pipeline"])

\* Lines 143-150: PutItem without a condition; the item becomes exactly
\* {fundId, extractedAt, payload}.
LegacyItem(x) ==
    [EmptyItem EXCEPT !.extractedAt = now, !.payload = Stringify(x)]

\* Lines 67-163.  ok: no stage threw and the model text parsed.  The object
\* is not validated, so it may or may not conform to the schema.
LegacyFinish(t, ok, conforms) ==
    LET tk == tasks[t] f == tk.fundId x == Extracted(tk.objectKey, conforms) IN
    /\ tk.op = "legacy" /\ tk.pc = "pipeline"
    /\ IF ok
          THEN /\ table' = [table EXCEPT ![f] = LegacyItem(x)]
               /\ Return(t, Response(tk, 200, x))
          ELSE /\ table' = table
               /\ Return(t, Response(tk, 500, AbsentJson))

\* Lines 136-139 and 165-180: the model text is not JSON (or is empty):
\* the SyntaxError is caught by the handler's catch, which answers 500 and
\* writes nothing.
LegacyInvalidJson(t) ==
    LET tk == [tasks[t] EXCEPT !.stages = 6] IN
    /\ tk.op = "legacy" /\ tk.pc = "pipeline"
    /\ table' = table
    /\ Return(t, Response(tk, 500, AbsentJson))

\* ============================================================ part_001
\* Queue consumer.  The records of a batch are read one at a time by the
\* for loop (480); the next record is drawn when the loop reaches it.

\* documentType values a message can carry ("" is a missing field).
DocumentTypes ==
    {"icmemo", "ICMEMO", "ima", " Ima ", "sideletter", "lpa", "ppm", "subdoc",
     "unknown-type", ""}

\* Bodies of SQS records.  parses = FALSE is a body JSON.parse rejects.
\* bucket is required like key; a message has both or neither here.
Unparseable ==
    [parses |-> FALSE, object |-> FALSE, fundId |-> "", documentType |-> "",
     key |-> AbsentKey, fileName |-> ""]

\* The body "null": JSON.parse accepts it and gives null, which has no
\* properties to read.
NullBody == [Unparseable EXCEPT !.parses = TRUE]

\* The messages that name a fund of F (or none) and a document of K (or
\* none).
MessagesOf(F, K) ==
    [parses : {TRUE}, object : {TRUE}, fundId : F \cup {""},
     documentType : DocumentTypes, key : K \cup {AbsentKey}, fileName : {""}]
    \cup {Unparseable, NullBody}

Messages == MessagesOf(FundIds, ObjectKeys)

\* The messages Spec delivers: one body that does not parse, and the
\* complete messages of one type of each routing class (implemented, not
\* implemented, unrecognized).  Incomplete messages and the other types
\* are delivered in SpecBatch.
LifecycleMessages ==
    {m \in Messages :
        \/ ~m.parses
        \/ /\ m.object /\ m.fundId # "" /\ m.key # AbsentKey
           /\ m.documentType \in {"icmemo", "ima", "unknown-type"}}

\* Line 237: trim().toLowerCase().
ToLowerCase(dt) ==
    CASE dt = "ICMEMO" -> "icmemo"
      [] dt = " Ima " -> "ima"
      [] OTHER -> dt

\* The switch without its last case label.
NotImplementedTypesWithoutSubdoc == {"ima", "sideletter", "lpa", "ppm"}

\* Lines 281-285.
NotImplementedTypes == {"ima", "sideletter", "lpa", "ppm", "subdoc"}

\* The validation without its check of fundId.
RouteWithoutFundIdCheck(m) ==
    IF m.documentType = "" THEN "Missing documentType in SQS message"
    ELSE IF m.key = AbsentKey THEN "Missing key (objectKey) in SQS message"
    ELSE IF ToLowerCase(m.documentType) = "icmemo" THEN "process"
    ELSE IF ToLowerCase(m.documentType) \in {"ima", "sideletter", "lpa",
                                             "ppm", "subdoc"} THEN "skip"
    ELSE "Unsupported documentType"

\* Lines 232-297: validation and routing of one parsed message.  The
\* result is "process", "skip" or the message of the Error thrown.
Route(m) ==
    IF m.fundId = "" THEN "Missing fundId in SQS message"
    ELSE IF m.documentType = "" THEN "Missing documentType in SQS message"
    ELSE IF m.key = AbsentKey THEN "Missing key (objectKey) in SQS message"
    ELSE IF ToLowerCase(m.documentType) = "icmemo" THEN "process"
    ELSE IF ToLowerCase(m.documentType) \in NotImplementedTypes THEN "skip"
    ELSE "Unsupported documentType"

\* Lines 248-251: fileName of the message, else the last segment of key.
MessageFileName(m) == IF m.fileName # "" THEN m.fileName ELSE m.key[2]

ConsumerStart(t) ==
    Start(t, [Idle EXCEPT !.op = "consume", !.pc = "loop"])

\* Line 497 / 540: batchItemFailures.push({ itemIdentifier: messageId }).
Fail(tk) ==
    [tk EXCEPT !.pc = "loop", !.failures = Append(@, tk.n), !.err = "",
               !.fundId = "", !.objectKey = AbsentKey, !.fileName = "",
               !.documentType = ""]

\* The message completed without an exception.
Skip(tk) == [tk EXCEPT !.pc = "loop", !.fundId = ""]

\* Lines 480-502 and 223-297: take the next record (its messageId is its
\* position in the batch), parse it, validate and route it.
ConsumerReceive(t, m) ==
    LET tk == [tasks[t] EXCEPT !.n = @ + 1, !.fundId = m.fundId,
                               !.objectKey = AbsentKey, !.fileName = "",
                               !.documentType = "", !.err = ""]
        r == Route(m) IN
    /\ tasks[t].op = "consume" /\ tasks[t].pc = "loop"
    /\ tasks[t].n < MaxBatch
    /\ table' = table
    /\ received' = m
    /\ sent' = NoJob
    /\ UNCHANGED <<now, invocations, bucket>>
    /\ returned' = IF m.parses /\ ~m.object THEN Thrown(tk) ELSE Nothing
    /\ tasks' = [tasks EXCEPT ![t] =
         IF ~m.parses THEN Fail(tk)
         \* message is null: line 233 throws a TypeError, and so does line
         \* 514 inside the catch block, outside its inner try
         ELSE IF ~m.object THEN Idle
         ELSE IF r = "skip" THEN Skip(tk)
         ELSE IF r = "process"
              THEN [tk EXCEPT !.pc = "begin", !.objectKey = m.key,
                              !.fileName = MessageFileName(m),
                              !.documentType = ToLowerCase(m.documentType)]
         \* line 514: FAILED is written only when the message has a fundId
         ELSE IF m.fundId = "" THEN Fail(tk)
         ELSE [tk EXCEPT !.pc = "catch", !.err = r]]

\* Lines 300-321: UpdateItem with no ConditionExpression: "SET #s =
\* :processing, updatedAt = :u, objectKey = :k, fileName = :f,
\* documentType = :dt REMOVE errorReason".
ConsumerProcessingItem(f, k, fn, dt) ==
    [Existing(f) EXCEPT !.status = "PROCESSING", !.updatedAt = now,
                        !.objectKey = k, !.fileName = fn,
                        !.documentType = dt, !.errorReason = Absent]

\* Lines 300-325.  The output of UpdateItem has no Item member (and, with
\* no ReturnValues, no Attributes either), so fundRecord.Item is undefined
\* and line 324 throws a TypeError after the update has been applied.
\* Lines 328-454 never execute.
ConsumerBegin(t) ==
    LET tk == tasks[t] f == tk.fundId IN
    /\ tk.op = "consume" /\ tk.pc = "begin"
    /\ table' = [table EXCEPT ![f] =
                   ConsumerProcessingItem(f, tk.objectKey, tk.fileName,
                                          tk.documentType)]
    /\ Goto(t, [tk EXCEPT !.pc = "catch", !.err = TypeErrorMsg])

\* Lines 503-541: best-effort FAILED with err.message, then the messageId
\* is pushed on batchItemFailures.
ConsumerCatch(t, dbOk) ==
    LET tk == tasks[t] f == tk.fundId IN
    /\ tk.op = "consume" /\ tk.pc = "catch"
    /\ table' = IF dbOk THEN [table EXCEPT ![f] = MarkFailed(f, tk.err)]
                        ELSE table
    /\ Goto(t, Fail(tk))

\* Line 552: the batch is exhausted; { batchItemFailures } is returned.
ConsumerReturn(t) ==
    LET tk == tasks[t] IN
    /\ tk.op = "consume" /\ tk.pc = "loop"
    /\ table' = table
    /\ Return(t, [Nothing EXCEPT !.op = "consume", !.n = tk.n,
                                 !.failures = tk.failures])


\* ================================================ part_005 (the batch)
\* Bodies of the records of the batched consumers: complete is "inputFiles
\* is a non-empty array and schemaPath and outputPath are present".
BatchBodies ==
    [parses : {TRUE}, fundId : BatchFundIds \cup {""}, complete : BOOLEAN]
    \cup {[parses |-> FALSE, fundId |-> "", complete |-> FALSE]}

\* Lines 194-211: the record is processed when this holds; otherwise
\* JSON.parse or "Invalid SQS payload" throws.
ValidBody(m) == m.parses /\ m.fundId # "" /\ m.complete

\* How the processing of one valid record ends: an inference call or the
\* result write throws (before the status update), the success message
\* cannot be sent (after the status update), or all of it is done.
BatchOutcomes == {"done", "pipeline throws", "notify throws"}

\* Lines 166-191: the prompt is loaded once; a missing PROMPT_S3_URI or an
\* unreadable prompt ends the invocation with the exception.
BatchedStart(t, promptOk) ==
    LET tk == [Idle EXCEPT !.op = "batched", !.pc = "loop"] IN
    IF promptOk THEN Start(t, tk) ELSE StartReturn(t, Thrown(tk))

\* Lines 193-378: one pass of the for loop.  Nothing in the loop catches:
\* an exception ends the handler, and the records after this one are not
\* looked at.
BatchedReceive(t, m, outcome) ==
    LET tk == [tasks[t] EXCEPT !.n = @ + 1, !.fundId = m.fundId]
        f == m.fundId IN
    /\ tasks[t].op = "batched" /\ tasks[t].pc = "loop"
    /\ tasks[t].n < MaxBatch
    /\ received' = m
    /\ sent' = NoJob
    /\ UNCHANGED <<now, invocations, bucket>>
    /\ table' = IF ValidBody(m) /\ outcome # "pipeline throws"
                   THEN [table EXCEPT ![f] =
                           updateFundStatus(f, "SUCCEEDED",
                               <<f, "results/rules-engine.json">>)]
                   ELSE table
    /\ IF ValidBody(m) /\ outcome = "done"
          THEN /\ tasks' = [tasks EXCEPT ![t] = [tk EXCEPT !.fundId = ""]]
               /\ returned' = Nothing
          ELSE /\ tasks' = [tasks EXCEPT ![t] = Idle]
               /\ returned' = Thrown(tk)

\* Lines 380-383: every record was processed; { ok: true, requestId }.
BatchedReturn(t) ==
    LET tk == tasks[t] IN
    /\ tk.op = "batched" /\ tk.pc = "loop"
    /\ table' = table
    /\ Return(t, [Nothing EXCEPT !.op = "batched", !.code = 200, !.n = tk.n])

\* =============================================== FundDocumentProcessor
\* The same loop without a fund record: results go to S3 only.
ProcessorStart(t, promptOk) ==
    LET tk == [Idle EXCEPT !.op = "processor", !.pc = "loop"] IN
    IF promptOk THEN Start(t, tk) ELSE StartReturn(t, Thrown(tk))

\* Lines 98-223.  ok: no inference call and no S3 call threw.
ProcessorReceive(t, m, ok) ==
    LET tk == [tasks[t] EXCEPT !.n = @ + 1, !.fundId = m.fundId] IN
    /\ tasks[t].op = "processor" /\ tasks[t].pc = "loop"
    /\ tasks[t].n < MaxBatch
    /\ received' = m
    /\ sent' = NoJob
    /\ UNCHANGED <<table, now, invocations, bucket>>
    /\ IF ValidBody(m) /\ ok
          THEN /\ tasks' = [tasks EXCEPT ![t] = [tk EXCEPT !.fundId = ""]]
               /\ returned' = Nothing
          ELSE /\ tasks' = [tasks EXCEPT ![t] = Idle]
               /\ returned' = Thrown(tk)

\* Lines 225-228.
ProcessorReturn(t) ==
    LET tk == tasks[t] IN
    /\ tk.op = "processor" /\ tk.pc = "loop"
    /\ table' = table
    /\ Return(t, [Nothing EXCEPT !.op = "processor", !.code = 200,
                                 !.n = tk.n])

\* ==================================================== the upload namespace
\* The upload handlers of part_004 call by call, on the objects of the
\* documents bucket.
Min(a, b) == IF a < b THEN a ELSE b

\* The objects under "<fundId>/files/" of the namespace b, in the order
\* in which S3 lists them (by key): the marker, whose key is the prefix
\* itself, comes first.  Key 0 is the marker, key i is "doc<i>"; a document
\* has a size above 0.
Contents(b) ==
    (IF b.marker THEN <<[key |-> 0, size |-> 0]>> ELSE <<>>)
    \o [i \in 1..(b.files - b.deleted) |->
           [key |-> b.deleted + i, size |-> 1]]

\* One ListObjectsV2 response for the prefix: the first maxKeys objects.
ListObjectsV2(b, maxKeys) ==
    SubSeq(Contents(b), 1, Min(maxKeys, Len(Contents(b))))

\* The filter without its test of the size.
NonEmptyWithoutSizeTest(listing) == listing

\* .filter(o => o.Size > 0)
NonEmpty(listing) == SelectSeq(listing, LAMBDA o : o.size > 0)

\* .map(o => o.Key)
KeysOf(listing) == [i \in DOMAIN listing |-> listing[i].key]

\* part_004:210-217: one response with MaxKeys 1.
prefixHasObjects(b) ==
    LET r == ListObjectsV2(b, 1) IN \E i \in DOMAIN r : r[i].size > 0

\* part_004:219-235: every page of the listing, documents only.
listKeys(b) == KeysOf(NonEmpty(Contents(b)))

\* part_004:237-262: copy every document under the timestamped archive
\* prefix, then delete the originals.
archiveFiles(b) ==
    IF Len(listKeys(b)) = 0 THEN b
    ELSE [b EXCEPT !.archive = @ + Len(listKeys(b)), !.files = 0]

\* part_004:264-270, for the prefix "<fundId>/files/".
putMarker(b) == [b EXCEPT !.marker = TRUE]

\* part_004:319-420: the markers, the archiving of earlier uploads, the
\* upsert of the record, the presigned POST.  An S3 failure before the
\* upsert answers 500.
FundInitUpload(f, s3ok) ==
    LET marked == putMarker(bucket[f])
        archived == IF prefixHasObjects(marked) THEN archiveFiles(marked)
                                                ELSE marked IN
    /\ invocations < MaxInvocations
    /\ invocations' = invocations + 1
    /\ IF s3ok
          THEN /\ bucket' = [bucket EXCEPT ![f] = archived]
               /\ table' = [table EXCEPT ![f] = upsertFundRecord(f)]
          ELSE /\ UNCHANGED <<bucket, table>>
    /\ returned' = [Nothing EXCEPT !.op = "init", !.fundId = f,
                                   !.code = IF s3ok THEN 200 ELSE 500]
    /\ received' = NoMessage
    /\ sent' = NoJob
    /\ UNCHANGED <<tasks, now>>

\* The browser posts k documents with the presigned POST that fund init
\* has issued for "<fundId>/files/".
ClientUpload(f, k) ==
    /\ bucket[f].marker
    /\ bucket[f].files + k <= MaxObjects
    /\ invocations < MaxInvocations
    /\ invocations' = invocations + 1
    /\ bucket' = [bucket EXCEPT ![f].files = @ + k]
    /\ returned' = Nothing
    /\ received' = NoMessage
    /\ sent' = NoJob
    /\ UNCHANGED <<table, tasks, now>>

\* part_004:46-69: GetCommand, 404 when there is no item; then one
\* ListObjectsV2 response for "<fundId>/files/", of which the documents
\* are kept; 400 when there is none.
CompleteList(t) ==
    LET tk == tasks[t]
        files == KeysOf(NonEmpty(ListObjectsV2(bucket[tk.fundId],
                                               MaxKeysDefault))) IN
    /\ tk.op = "complete" /\ tk.pc = "get"
    /\ table' = table
    /\ IF table[tk.fundId] = NoItem
          THEN Return(t, Response(tk, 404, AbsentJson))
       ELSE IF Len(files) = 0 THEN Return(t, Response(tk, 400, AbsentJson))
       ELSE Goto(t, [tk EXCEPT !.pc = "store", !.files = files])

\* part_004:89-111: the update under attribute_exists(fundId), with the
\* manifest.  A rejected condition goes to the catch (500).
CompleteStore(t) ==
    LET tk == tasks[t] f == tk.fundId IN
    /\ tk.op = "complete" /\ tk.pc = "store"
    /\ IF table[f] # NoItem
          THEN /\ table' = [table EXCEPT ![f] =
                              [CompleteItem(f) EXCEPT !.inputFiles = tk.files]]
               /\ Goto(t, [tk EXCEPT !.pc = "send"])
          ELSE /\ table' = table
               /\ Return(t, Response(tk, 500, AbsentJson))

\* part_004:114-148: the processing job is sent and 200 answered; when
\* the send throws, the catch answers 500.
CompleteSend(t, sqsOk) ==
    LET tk == tasks[t] IN
    /\ tk.op = "complete" /\ tk.pc = "send"
    /\ tasks' = [tasks EXCEPT ![t] = Idle]
    /\ returned' = Response(tk, IF sqsOk THEN 200 ELSE 500, AbsentJson)
    /\ sent' = IF sqsOk THEN [fundId |-> tk.fundId, inputFiles |-> tk.files]
                        ELSE NoJob
    /\ received' = NoMessage
    /\ UNCHANGED <<table, now, invocations, bucket>>


\* ============================== part_005, FundDocumentProcessorLambda.js
\* The batched consumers call by call, for one record of the batch at a
\* time.  op is "batched" (part_005) or "processor"
\* (FundDocumentProcessorLambda.js); the processor has no fund record and
\* sends no event.
FundJobOps == {"batched", "processor"}

\* The inputFiles of a job: the locations of n documents, as the upload
\* handlers list them or in the opposite order.
InputFiles(n, descending) ==
    [i \in 1..n |-> IF descending THEN n + 1 - i ELSE i]

\* part_005:221-232.  The name 0 is "RulesEngineJSONSchema" and the name
\* idx is "pdf_<idx>"; the uri 0 is schemaPath.
SchemaDocument == [name |-> 0, format |-> "txt", uri |-> 0]

BuildManifest(inputFiles) ==
    <<SchemaDocument>>
    \o [idx \in DOMAIN inputFiles |->
          [name |-> idx, format |-> "pdf", uri |-> inputFiles[idx]]]

\* chunk with the slice taken one element short.
RECURSIVE chunkShortFrom(_, _, _)
chunkShortFrom(arr, size, i) ==
    IF i >= Len(arr) THEN <<>>
    ELSE <<SubSeq(arr, i + 1, Min(i + size - 1, Len(arr)))>>
         \o chunkShortFrom(arr, size, i + size)

\* part_005:62-68: for (i = 0; i < arr.length; i += size)
\* out.push(arr.slice(i, i + size)).
RECURSIVE chunkFrom(_, _, _)
chunkFrom(arr, size, i) ==
    IF i >= Len(arr) THEN <<>>
    ELSE <<SubSeq(arr, i + 1, Min(i + size, Len(arr)))>>
         \o chunkFrom(arr, size, i + size)

chunk(arr, size) == chunkFrom(arr, size, 0)

\* The text of one Converse response: its text parts joined, "" when it has
\* none.
Texts == {"", "a"}

\* part_005:322.
Separator == "\n\n----------------\n\n"

\* outputs.join(sep): a text is kept as the sequence of the pieces that
\* were concatenated to give it.
RECURSIVE Join(_, _)
Join(outputs, sep) ==
    IF Len(outputs) = 0 THEN <<>>
    ELSE IF Len(outputs) = 1 THEN <<outputs[1]>>
    ELSE <<outputs[1], sep>> \o Join(Tail(outputs), sep)

\* part_005:332-333: "<outputPath>/rules-engine.json" for the outputPath
\* "<fundId>/results/" that the upload handlers send.
OutputKey == "results/rules-engine.json"

\* PutObject: the object at the key is created or replaced.
PutObject(b, key, body) ==
    [b EXCEPT !.results = {o \in @ : o.key # key}
                          \cup {[key |-> key, body |-> body]}]

\* part_005:193-236: the next record of the batch is read; a valid one
\* gives the manifest and its groups, any other ends the invocation with
\* the exception.
FundJobTake(t, m, n, descending) ==
    LET inputFiles == InputFiles(n, descending)
        tk == [tasks[t] EXCEPT !.n = @ + 1, !.fundId = m.fundId,
                               !.files = inputFiles,
                               !.docs = BuildManifest(inputFiles),
                               !.batches = chunk(BuildManifest(inputFiles),
                                                 GroupSize),
                               !.calls = <<>>, !.outputs = <<>>,
                               !.pc = "infer"] IN
    /\ tasks[t].op \in FundJobOps /\ tasks[t].pc = "loop"
    /\ tasks[t].n < MaxBatch
    /\ received' = m
    /\ sent' = NoJob
    /\ UNCHANGED <<table, now, invocations, bucket>>
    /\ IF ValidBody(m)
          THEN /\ tasks' = [tasks EXCEPT ![t] = tk]
               /\ returned' = Nothing
          ELSE /\ tasks' = [tasks EXCEPT ![t] = Idle]
               /\ returned' = Thrown([tasks[t] EXCEPT !.n = @ + 1,
                                                      !.fundId = m.fundId])

\* part_005:239-317: one pass of the loop over the groups: the Converse
\* call for the next group; its text is pushed on outputs.  A call that
\* throws ends the invocation.
FundJobInfer(t, ok, text) ==
    LET tk == tasks[t] i == Len(tk.outputs) + 1 IN
    /\ tk.op \in FundJobOps /\ tk.pc = "infer"
    /\ i <= Len(tk.batches)
    /\ table' = table
    /\ IF ok
          THEN Goto(t, [tk EXCEPT !.calls = Append(@, tk.batches[i]),
                                  !.outputs = Append(@, text)])
          ELSE Return(t, Thrown(tk))

\* part_005:322-342: the loop is over; the outputs are joined and put at
\* the output key.  The processor (FundDocumentProcessorLambda.js:195-223)
\* is done with the record then.
FundJobWrite(t, s3ok) ==
    LET tk == tasks[t] f == tk.fundId
        finalOutput == Join(tk.outputs, Separator) IN
    /\ tk.op \in FundJobOps /\ tk.pc = "infer"
    /\ Len(tk.outputs) = Len(tk.batches)
    /\ table' = table
    /\ received' = NoMessage
    /\ sent' = NoJob
    /\ UNCHANGED <<now, invocations>>
    /\ IF s3ok
          THEN /\ bucket' = [bucket EXCEPT ![f] =
                               PutObject(@, OutputKey, finalOutput)]
               /\ tasks' = [tasks EXCEPT ![t] =
                    IF tk.op = "processor"
                       THEN [tk EXCEPT !.pc = "loop", !.fundId = ""]
                       ELSE [tk EXCEPT !.pc = "status"]]
               /\ returned' = Nothing
          ELSE /\ bucket' = bucket
               /\ tasks' = [tasks EXCEPT ![t] = Idle]
               /\ returned' = Thrown(tk)

\* part_005:350-354.
FundJobStatus(t, dbOk) ==
    LET tk == tasks[t] f == tk.fundId IN
    /\ tk.op = "batched" /\ tk.pc = "status"
    /\ IF dbOk
          THEN /\ table' = [table EXCEPT ![f] =
                              updateFundStatus(f, "SUCCEEDED", <<f, OutputKey>>)]
               /\ Goto(t, [tk EXCEPT !.pc = "notify"])
          ELSE /\ table' = table
               /\ Return(t, Thrown(tk))

\* part_005:141-160.
SuccessMessage(f, inputFiles, outputFiles) ==
    [fundId |-> f, inputFiles |-> inputFiles, outputFiles |-> outputFiles,
     status |-> "SUCCEEDED"]

\* part_005:361-367: the succeeded event; the record is done then.
FundJobNotify(t, sqsOk) ==
    LET tk == tasks[t] f == tk.fundId IN
    /\ tk.op = "batched" /\ tk.pc = "notify"
    /\ table' = table
    /\ received' = NoMessage
    /\ UNCHANGED <<now, invocations, bucket>>
    /\ IF sqsOk
          THEN /\ sent' = SuccessMessage(f, tk.files, <<<<f, OutputKey>>>>)
               /\ tasks' = [tasks EXCEPT ![t] =
                              [tk EXCEPT !.pc = "loop", !.fundId = ""]]
               /\ returned' = Nothing
          ELSE /\ sent' = NoJob
               /\ tasks' = [tasks EXCEPT ![t] = Idle]
               /\ returned' = Thrown(tk)


\* ================================================== the OCR stage
\* Blocks of a Textract result: the type and the text of each.  A block
\* without Text is one with the text "" (b.Text || "" in part_000 and
\* part_001; join renders undefined as "" in part_003).
BlockTypes == {"LINE", "WORD"}
BlockTexts == {"", "a", "b", "Draft watermark", "WATERMARK COPY"}
Blocks == [type : BlockTypes, text : BlockTexts]

RECURSIVE SeqsUpTo(_, _)
SeqsUpTo(S, n) ==
    IF n = 0 THEN {<<>>}
    ELSE LET shorter == SeqsUpTo(S, n - 1) IN
         shorter \cup {Append(q, x) : q \in shorter, x \in S}

BlockSeqs == SeqsUpTo(Blocks, MaxBlocks)

\* String.prototype.toUpperCase on the texts of BlockTexts.
toUpperCase(txt) ==
    CASE txt = "a" -> "A"
      [] txt = "b" -> "B"
      [] txt = "Draft watermark" -> "DRAFT WATERMARK"
      [] OTHER -> txt

\* s.includes("WATERMARK"), which compares letter case and all.
includesWATERMARK(txt) == txt \in {"DRAFT WATERMARK", "WATERMARK COPY"}

\* A string built by concatenation is the sequence of its non-empty
\* pieces (no piece is the beginning of another).
Concat(pieces) == SelectSeq(pieces, LAMBDA piece : piece # "")

\* .map(b => b.Text)
TextsOf(blocks) == [i \in DOMAIN blocks |-> blocks[i].text]

\* .filter(b => b.BlockType === "LINE")
LineBlocks(blocks) == SelectSeq(blocks, LAMBDA b : b.type = "LINE")

\* .filter(t => t && !t.toUpperCase().includes("WATERMARK"))
NoiseFiltered(texts) ==
    SelectSeq(texts,
              LAMBDA txt : txt # "" /\ ~includesWATERMARK(toUpperCase(txt)))

\* part_000:156-161 (and the same lines 131-136 of part_001).
memoText(blocks) ==
    Concat(Join(NoiseFiltered(TextsOf(LineBlocks(blocks))), "\n"))

\* part_003:102-105.
memoTextLegacy(blocks) == Concat(Join(TextsOf(LineBlocks(blocks)), "\n"))

\* part_000:173-181: the schema and the text, in one user prompt.
userPrompt(schema, txt) == [schema |-> schema, text |-> txt]

\* part_000:122-181: head, config, load and OCR have succeeded on the
\* blocks Textract gave; the prompt is built.
ExtractOcr(t, blocks) ==
    LET tk == tasks[t] IN
    /\ tk.op = "extract" /\ tk.pc = "pipeline" /\ tk.stages = 0
    /\ table' = table
    /\ Goto(t, [tk EXCEPT !.stages = 4, !.blocks = blocks,
                          !.text = memoText(blocks),
                          !.request = userPrompt("schema", memoText(blocks))])

\* A stage after the ones that have succeeded throws.
ExtractLaterStageThrows(t, k) ==
    tasks[t].stages < k /\ ExtractStageThrows(t, k)

\* part_003:67-117.
LegacyOcr(t, blocks) ==
    LET tk == tasks[t] IN
    /\ tk.op = "legacy" /\ tk.pc = "pipeline" /\ tk.stages = 0
    /\ table' = table
    /\ Goto(t, [tk EXCEPT !.stages = 4, !.blocks = blocks,
                          !.text = memoTextLegacy(blocks),
                          !.request = userPrompt("schema",
                                                 memoTextLegacy(blocks))])

\* ------------------------------------------------------------------ Next
Next ==
    \/ Tick
    \/ \E f \in FundIds, fn \in FileNames : CreateFundUpload(f, fn)
    \/ \E f \in FundIds, s3ok \in BOOLEAN : FundInit(f, s3ok)
    \/ \E f \in FundIds, valid \in BOOLEAN : FundDocumentUpload(f, valid)
    \/ \E f \in FundIds, ok \in BOOLEAN : BatchedProcess(f, ok)
    \/ \E t \in Tasks, f \in FundIds : CompleteStart(t, f)
    \/ \E t \in Tasks, hasFiles \in BOOLEAN : CompleteGet(t, hasFiles)
    \/ \E t \in Tasks : CompleteUpdate(t)
    \/ \E t \in Tasks, f \in FundIds, fn \in FileNames \cup {""},
          bodyOk \in BOOLEAN : ExtractStart(t, f, fn, bodyOk)
    \/ \E t \in Tasks : ExtractGet(t)
    \/ \E t \in Tasks : ExtractBegin(t)
    \/ \E t \in Tasks, k \in ThrowingStages : ExtractStageThrows(t, k)
    \/ \E t \in Tasks, dbOk \in BOOLEAN : ExtractInvalidJson(t, dbOk)
    \/ \E t \in Tasks, dbOk \in BOOLEAN : ExtractSchemaInvalid(t, dbOk)
    \/ \E t \in Tasks, dbOk \in BOOLEAN : ExtractPersist(t, dbOk)
    \/ \E t \in Tasks, dbOk \in BOOLEAN : ExtractCatch(t, dbOk)
    \/ \E t \in Tasks, f \in FundIds, fn \in FileNames \cup {""} :
          LegacyStart(t, f, fn)
    \/ \E t \in Tasks : LegacyGet(t)
    \/ \E t \in Tasks, ok \in BOOLEAN, conforms \in BOOLEAN :
          LegacyFinish(t, ok, conforms)
    \/ \E t \in Tasks : LegacyInvalidJson(t)
    \/ \E t \in Tasks : ConsumerStart(t)
    \/ \E t \in Tasks, m \in LifecycleMessages : ConsumerReceive(t, m)
    \/ \E t \in Tasks : ConsumerBegin(t)
    \/ \E t \in Tasks, dbOk \in BOOLEAN : ConsumerCatch(t, dbOk)
    \/ \E t \in Tasks : ConsumerReturn(t)

Spec == Init /\ [][Next]_vars

\* The queue consumers on their own, one invocation after the other:
\* batches over two funds, every message body, records created by upload
\* initiation.
BatchMessages == MessagesOf(BatchFundIds, BatchFundIds \X {"a.pdf"})

\* One consumer invocation runs at a time.
BatchTasks == {"t1"}

NextBatch ==
    \/ \E f \in BatchFundIds, fn \in FileNames : CreateFundUpload(f, fn)
    \/ \E t \in BatchTasks : ConsumerStart(t)
    \/ \E t \in BatchTasks, m \in BatchMessages : ConsumerReceive(t, m)
    \/ \E t \in BatchTasks : ConsumerBegin(t)
    \/ \E t \in BatchTasks, dbOk \in BOOLEAN : ConsumerCatch(t, dbOk)
    \/ \E t \in BatchTasks : ConsumerReturn(t)
    \/ \E t \in BatchTasks, promptOk \in BOOLEAN : BatchedStart(t, promptOk)
    \/ \E t \in BatchTasks, m \in BatchBodies, o \in BatchOutcomes :
          BatchedReceive(t, m, o)
    \/ \E t \in BatchTasks : BatchedReturn(t)
    \/ \E t \in BatchTasks, promptOk \in BOOLEAN : ProcessorStart(t, promptOk)
    \/ \E t \in BatchTasks, m \in BatchBodies, ok \in BOOLEAN :
          ProcessorReceive(t, m, ok)
    \/ \E t \in BatchTasks : ProcessorReturn(t)

SpecBatch == Init /\ [][NextBatch]_vars

\* The per-document consumer on its own, one invocation after the other,
\* with every message body for the funds of FundIds, on records that the
\* upload handlers have written.
NextConsumer ==
    \/ \E f \in FundIds, fn \in FileNames : CreateFundUpload(f, fn)
    \/ \E f \in FundIds, s3ok \in BOOLEAN : FundInit(f, s3ok)
    \/ \E f \in FundIds, valid \in BOOLEAN : FundDocumentUpload(f, valid)
    \/ \E t \in BatchTasks : ConsumerStart(t)
    \/ \E t \in BatchTasks, m \in Messages : ConsumerReceive(t, m)
    \/ \E t \in BatchTasks : ConsumerBegin(t)
    \/ \E t \in BatchTasks, dbOk \in BOOLEAN : ConsumerCatch(t, dbOk)
    \/ \E t \in BatchTasks : ConsumerReturn(t)

SpecConsumer == Init /\ [][NextConsumer]_vars

\* The three queue consumers on their own, one invocation after the other,
\* with every message body for the funds of FundIds, on records that upload
\* initiation has created.
NextIntake ==
    \/ \E f \in FundIds, fn \in FileNames : CreateFundUpload(f, fn)
    \/ \E t \in BatchTasks : ConsumerStart(t)
    \/ \E t \in BatchTasks, m \in Messages : ConsumerReceive(t, m)
    \/ \E t \in BatchTasks : ConsumerBegin(t)
    \/ \E t \in BatchTasks, dbOk \in BOOLEAN : ConsumerCatch(t, dbOk)
    \/ \E t \in BatchTasks : ConsumerReturn(t)
    \/ \E t \in BatchTasks, promptOk \in BOOLEAN : BatchedStart(t, promptOk)
    \/ \E t \in BatchTasks, m \in BatchBodies, o \in BatchOutcomes :
          BatchedReceive(t, m, o)
    \/ \E t \in BatchTasks : BatchedReturn(t)
    \/ \E t \in BatchTasks, promptOk \in BOOLEAN : ProcessorStart(t, promptOk)
    \/ \E t \in BatchTasks, m \in BatchBodies, ok \in BOOLEAN :
          ProcessorReceive(t, m, ok)
    \/ \E t \in BatchTasks : ProcessorReturn(t)

SpecIntake == Init /\ [][NextIntake]_vars

\* The HTTP extraction handler on its own, one call after the other, on
\* records that the upload handlers have written.
NextExtract ==
    \/ \E f \in FundIds, fn \in FileNames : CreateFundUpload(f, fn)
    \/ \E f \in FundIds, s3ok \in BOOLEAN : FundInit(f, s3ok)
    \/ \E t \in BatchTasks, f \in FundIds, fn \in FileNames \cup {""},
          bodyOk \in BOOLEAN : ExtractStart(t, f, fn, bodyOk)
    \/ \E t \in BatchTasks : ExtractGet(t)
    \/ \E t \in BatchTasks : ExtractBegin(t)
    \/ \E t \in BatchTasks, k \in ThrowingStages : ExtractStageThrows(t, k)
    \/ \E t \in BatchTasks, dbOk \in BOOLEAN : ExtractInvalidJson(t, dbOk)
    \/ \E t \in BatchTasks, dbOk \in BOOLEAN : ExtractSchemaInvalid(t, dbOk)
    \/ \E t \in BatchTasks, dbOk \in BOOLEAN : ExtractPersist(t, dbOk)
    \/ \E t \in BatchTasks, dbOk \in BOOLEAN : ExtractCatch(t, dbOk)

SpecExtract == Init /\ [][NextExtract]_vars

\* Callers retry and invocations go on without end: when every invocation
\* of a round has returned, the count of invocations starts again.
NextRound ==
    /\ invocations = MaxInvocations
    /\ \A t \in Tasks : Free(t)
    /\ invocations' = 0
    /\ returned' = Nothing
    /\ received' = NoMessage
    /\ sent' = NoJob
    /\ UNCHANGED <<table, tasks, now, bucket>>

\* A retried call: the same request is sent again.
ExtractRetry ==
    \E t \in BatchTasks, f \in FundIds, fn \in FileNames :
        ExtractStart(t, f, fn, TRUE)

\* The catch of the HTTP handler with its FAILED update applied.
ExtractCatchApplied == \E t \in BatchTasks : ExtractCatch(t, TRUE)

\* The HTTP extraction handler, called without end for funds that upload
\* initiation has created.
NextLive ==
    \/ \E f \in FundIds, fn \in FileNames : CreateFundUpload(f, fn)
    \/ \E t \in BatchTasks, f \in FundIds, fn \in FileNames \cup {""},
          bodyOk \in BOOLEAN : ExtractStart(t, f, fn, bodyOk)
    \/ \E t \in BatchTasks : ExtractGet(t)
    \/ \E t \in BatchTasks : ExtractBegin(t)
    \/ \E t \in BatchTasks, k \in ThrowingStages : ExtractStageThrows(t, k)
    \/ \E t \in BatchTasks, dbOk \in BOOLEAN : ExtractInvalidJson(t, dbOk)
    \/ \E t \in BatchTasks, dbOk \in BOOLEAN : ExtractSchemaInvalid(t, dbOk)
    \/ \E t \in BatchTasks, dbOk \in BOOLEAN : ExtractPersist(t, dbOk)
    \/ \E t \in BatchTasks, dbOk \in BOOLEAN : ExtractCatch(t, dbOk)
    \/ NextRound

\* An invocation that has started runs on; the call is retried again and
\* again; a FAILED update that is attempted again and again is applied.
SpecLive ==
    /\ Init /\ [][NextLive]_vars
    /\ WF_vars(NextLive)
    /\ SF_vars(ExtractRetry)
    /\ SF_vars(ExtractCatchApplied)

\* The upload handlers on the documents bucket: records created by upload
\* initiation and by fund init, documents posted by the browser, upload
\* completion by concurrent calls.
NextUpload ==
    \/ \E f \in FundIds, fn \in FileNames : CreateFundUpload(f, fn)
    \/ \E f \in FundIds, s3ok \in BOOLEAN : FundInitUpload(f, s3ok)
    \/ \E f \in FundIds, k \in {1, MaxKeysDefault} : ClientUpload(f, k)
    \/ \E t \in Tasks, f \in FundIds : CompleteStart(t, f)
    \/ \E t \in Tasks : CompleteList(t)
    \/ \E t \in Tasks : CompleteStore(t)
    \/ \E t \in Tasks, sqsOk \in BOOLEAN : CompleteSend(t, sqsOk)

SpecUpload == Init /\ [][NextUpload]_vars

\* The batched consumers on their own, one invocation after the other, on
\* jobs for funds that upload initiation has created.
FundJobBodies == {m \in BatchBodies : m.fundId \in FundIds \cup {""}}

NextFundJob ==
    \/ \E f \in FundIds, fn \in FileNames : CreateFundUpload(f, fn)
    \/ \E t \in BatchTasks, promptOk \in BOOLEAN : BatchedStart(t, promptOk)
    \/ \E t \in BatchTasks, promptOk \in BOOLEAN : ProcessorStart(t, promptOk)
    \/ \E t \in BatchTasks, m \in FundJobBodies, n \in 1..MaxFiles,
          descending \in BOOLEAN : FundJobTake(t, m, n, descending)
    \/ \E t \in BatchTasks, ok \in BOOLEAN, text \in Texts :
          FundJobInfer(t, ok, text)
    \/ \E t \in BatchTasks, s3ok \in BOOLEAN : FundJobWrite(t, s3ok)
    \/ \E t \in BatchTasks, dbOk \in BOOLEAN : FundJobStatus(t, dbOk)
    \/ \E t \in BatchTasks, sqsOk \in BOOLEAN : FundJobNotify(t, sqsOk)
    \/ \E t \in BatchTasks : BatchedReturn(t)
    \/ \E t \in BatchTasks : ProcessorReturn(t)

SpecFundJob == Init /\ [][NextFundJob]_vars

\* The HTTP extraction handlers with their OCR stage, one call after the
\* other, for funds that upload initiation has created.  A stage throws
\* only if it has not succeeded yet.
NextOcr ==
    \/ \E f \in FundIds, fn \in FileNames : CreateFundUpload(f, fn)
    \/ \E t \in BatchTasks, f \in FundIds, fn \in FileNames \cup {""},
          bodyOk \in BOOLEAN : ExtractStart(t, f, fn, bodyOk)
    \/ \E t \in BatchTasks : ExtractGet(t)
    \/ \E t \in BatchTasks : ExtractBegin(t)
    \/ \E t \in BatchTasks, blocks \in BlockSeqs : ExtractOcr(t, blocks)
    \/ \E t \in BatchTasks, k \in ThrowingStages :
          ExtractLaterStageThrows(t, k)
    \/ \E t \in BatchTasks, dbOk \in BOOLEAN : ExtractInvalidJson(t, dbOk)
    \/ \E t \in BatchTasks, dbOk \in BOOLEAN : ExtractSchemaInvalid(t, dbOk)
    \/ \E t \in BatchTasks, dbOk \in BOOLEAN : ExtractPersist(t, dbOk)
    \/ \E t \in BatchTasks, dbOk \in BOOLEAN : ExtractCatch(t, dbOk)
    \/ \E t \in BatchTasks, f \in FundIds, fn \in FileNames \cup {""} :
          LegacyStart(t, f, fn)
    \/ \E t \in BatchTasks : LegacyGet(t)
    \/ \E t \in BatchTasks, blocks \in BlockSeqs : LegacyOcr(t, blocks)
    \/ \E t \in BatchTasks, ok \in BOOLEAN, conforms \in BOOLEAN :
          LegacyFinish(t, ok, conforms)
    \/ \E t \in BatchTasks : LegacyInvalidJson(t)

SpecOcr == Init /\ [][NextOcr]_vars

\* ============================================================ archiveFiles
\* listKeys and archiveFiles of part_004 call by call: every ListObjectsV2
\* page, every CopyObject and every DeleteObjects is a step, and each of
\* them may fail, which ends the run with the exception.

\* The number of keys of one DeleteObjects request (line 252).
DeleteBatch == 1000

\* One ListObjectsV2 response for the prefix after the continuation token:
\* at most 1000 objects in key order, IsTruncated when there are more.
ListPage(b, token) ==
    LET rest == SelectSeq(Contents(b), LAMBDA o : o.key > token) IN
    [contents |-> SubSeq(rest, 1, Min(MaxKeysDefault, Len(rest))),
     truncated |-> Len(rest) > MaxKeysDefault]

\* The document k is under "<fundId>/files/".
InFiles(b, k) == b.deleted < k /\ k <= b.files

\* Lines 244-249: CopyObject of the document k to
\* archivePrefix + k.substring(filesPrefix.length).
CopyObject(b, ts, k) ==
    [b EXCEPT !.copies = @ \cup {[ts |-> ts, name |-> k]},
              !.archive = @ + 1]

\* Lines 253-258: DeleteObjects of the keys ks, which are in key order and
\* go on where the documents deleted so far end.
DeleteObjects(b, ks) ==
    [b EXCEPT !.deleted = IF ks[Len(ks)] > @ THEN ks[Len(ks)] ELSE @]

\* The exception of a failed S3 call leaves archiveFiles; the handler's
\* catch (407-419) answers 500.
ArchiveThrows(t) ==
    /\ bucket' = bucket
    /\ tasks' = [tasks EXCEPT ![t] = Idle]
    /\ returned' = [Nothing EXCEPT !.op = "archive",
                                   !.fundId = tasks[t].fundId, !.code = 500]

\* Line 237: archiveFiles("<fundId>/files/") is called.
ArchiveStart(t, f) ==
    Start(t, [Idle EXCEPT !.op = "archive", !.pc = "list", !.fundId = f])

\* Lines 223-232: one page of listKeys; after the last page line 239
\* returns 0 when there is no key, and line 241 takes the timestamp of the
\* archive prefix.
ArchiveList(t, ok) ==
    LET tk == tasks[t]
        r == ListPage(bucket[tk.fundId], tk.token)
        out == tk.files \o KeysOf(NonEmpty(r.contents)) IN
    /\ tk.op = "archive" /\ tk.pc = "list"
    /\ received' = NoMessage
    /\ sent' = NoJob
    /\ UNCHANGED <<table, now, invocations>>
    /\ IF ~ok THEN ArchiveThrows(t)
       ELSE /\ bucket' = bucket
            /\ IF r.truncated
                  THEN /\ tasks' = [tasks EXCEPT ![t] =
                              [tk EXCEPT !.files = out,
                                 !.token = r.contents[Len(r.contents)].key]]
                       /\ returned' = Nothing
                  ELSE IF Len(out) = 0
                  THEN /\ tasks' = [tasks EXCEPT ![t] = Idle]
                       /\ returned' = [Nothing EXCEPT !.op = "archive",
                                          !.fundId = tk.fundId, !.code = 200]
                  ELSE /\ tasks' = [tasks EXCEPT ![t] =
                              [tk EXCEPT !.files = out, !.pc = "copy",
                                         !.i = 1, !.ts = now]]
                       /\ returned' = Nothing

\* Lines 243-250: the copy of keys[i]; it fails when the call fails or the
\* source is gone.  After the copy for which last holds the loop of the
\* deletes begins at offset 0.
CopyStep(t, ok, last) ==
    LET tk == tasks[t] f == tk.fundId k == tk.files[tk.i] IN
    /\ tk.op = "archive" /\ tk.pc = "copy"
    /\ received' = NoMessage
    /\ sent' = NoJob
    /\ UNCHANGED <<table, now, invocations>>
    /\ IF ~(ok /\ InFiles(bucket[f], k)) THEN ArchiveThrows(t)
       ELSE /\ bucket' = [bucket EXCEPT ![f] = CopyObject(@, tk.ts, k)]
            /\ tasks' = [tasks EXCEPT ![t] =
                            IF last THEN [tk EXCEPT !.pc = "delete", !.i = 0]
                                    ELSE [tk EXCEPT !.i = @ + 1]]
            /\ returned' = Nothing

\* The loop of the copies left after its first copy.
ArchiveCopyFirstOnly(t, ok) == CopyStep(t, ok, TRUE)

\* Lines 243-250: "for (const k of keys)".
ArchiveCopy(t, ok) == CopyStep(t, ok, tasks[t].i = Len(tasks[t].files))

\* Lines 252-259: one DeleteObjects of keys.slice(i, i + 1000); after the
\* last one line 261 returns keys.length.
ArchiveDelete(t, ok) ==
    LET tk == tasks[t] f == tk.fundId
        slice == SubSeq(tk.files, tk.i + 1,
                        Min(tk.i + DeleteBatch, Len(tk.files))) IN
    /\ tk.op = "archive" /\ tk.pc = "delete"
    /\ received' = NoMessage
    /\ sent' = NoJob
    /\ UNCHANGED <<table, now, invocations>>
    /\ IF ~ok THEN ArchiveThrows(t)
       ELSE /\ bucket' = [bucket EXCEPT ![f] = DeleteObjects(@, slice)]
            /\ IF tk.i + DeleteBatch < Len(tk.files)
                  THEN /\ tasks' = [tasks EXCEPT ![t] =
                                      [tk EXCEPT !.i = @ + DeleteBatch]]
                       /\ returned' = Nothing
                  ELSE /\ tasks' = [tasks EXCEPT ![t] = Idle]
                       /\ returned' = [Nothing EXCEPT !.op = "archive",
                                          !.fundId = tk.fundId, !.code = 200,
                                          !.n = Len(tk.files)]

\* archiveFiles on the uploads of a fund: fund init issues the presigned
\* POST, the browser posts documents, archiveFiles runs on the prefix.
NextArchive ==
    \/ Tick
    \/ \E f \in FundIds, s3ok \in BOOLEAN : FundInitUpload(f, s3ok)
    \/ \E f \in FundIds, k \in {1, MaxKeysDefault, MaxObjects} :
          ClientUpload(f, k)
    \/ \E t \in BatchTasks, f \in FundIds : ArchiveStart(t, f)
    \/ \E t \in BatchTasks, ok \in BOOLEAN : ArchiveList(t, ok)
    \/ \E t \in BatchTasks, ok \in BOOLEAN : ArchiveCopy(t, ok)
    \/ \E t \in BatchTasks, ok \in BOOLEAN : ArchiveDelete(t, ok)

SpecArchive == Init /\ [][NextArchive]_vars

\* Every handler that writes the table, one invocation at a time.
NextRecord ==
    \/ Tick
    \/ \E f \in FundIds, fn \in FileNames : CreateFundUpload(f, fn)
    \/ \E f \in FundIds, s3ok \in BOOLEAN : FundInit(f, s3ok)
    \/ \E f \in FundIds, valid \in BOOLEAN : FundDocumentUpload(f, valid)
    \/ \E f \in FundIds, ok \in BOOLEAN : BatchedProcess(f, ok)
    \/ \E t \in BatchTasks, f \in FundIds : CompleteStart(t, f)
    \/ \E t \in BatchTasks, hasFiles \in BOOLEAN : CompleteGet(t, hasFiles)
    \/ \E t \in BatchTasks : CompleteUpdate(t)
    \/ \E t \in BatchTasks, f \in FundIds, fn \in FileNames \cup {""},
          bodyOk \in BOOLEAN : ExtractStart(t, f, fn, bodyOk)
    \/ \E t \in BatchTasks : ExtractGet(t)
    \/ \E t \in BatchTasks : ExtractBegin(t)
    \/ \E t \in BatchTasks, k \in ThrowingStages : ExtractStageThrows(t, k)
    \/ \E t \in BatchTasks, dbOk \in BOOLEAN : ExtractInvalidJson(t, dbOk)
    \/ \E t \in BatchTasks, dbOk \in BOOLEAN : ExtractSchemaInvalid(t, dbOk)
    \/ \E t \in BatchTasks, dbOk \in BOOLEAN : ExtractPersist(t, dbOk)
    \/ \E t \in BatchTasks, dbOk \in BOOLEAN : ExtractCatch(t, dbOk)
    \/ \E t \in BatchTasks, f \in FundIds, fn \in FileNames \cup {""} :
          LegacyStart(t, f, fn)
    \/ \E t \in BatchTasks : LegacyGet(t)
    \/ \E t \in BatchTasks, ok \in BOOLEAN, conforms \in BOOLEAN :
          LegacyFinish(t, ok, conforms)
    \/ \E t \in BatchTasks : LegacyInvalidJson(t)
    \/ \E t \in BatchTasks : ConsumerStart(t)
    \/ \E t \in BatchTasks, m \in LifecycleMessages : ConsumerReceive(t, m)
    \/ \E t \in BatchTasks : ConsumerBegin(t)
    \/ \E t \in BatchTasks, dbOk \in BOOLEAN : ConsumerCatch(t, dbOk)
    \/ \E t \in BatchTasks : ConsumerReturn(t)

SpecRecord == Init /\ [][NextRecord]_vars

\* =================================================================
\* Properties
\* =================================================================

\* Task t takes a step.
Steps(t) == tasks'[t] # tasks[t]

\* Task t is at the point where its begin-processing request reaches the
\* record: the HTTP handler at its read-and-gate, the consumer at its
\* first update.
BeginRequested(t) ==
    \/ tasks[t].op = "extract" /\ tasks[t].pc = "get"
    \/ tasks[t].op = "consume" /\ tasks[t].pc = "begin"

\* Task t has asked to begin processing and the answer is not out yet.
BeginPending(t) ==
    \/ BeginRequested(t)
    \/ tasks[t].op = "extract" /\ tasks[t].pc = "begin"

\* Task t has made its begin-processing update and has not returned.
Began(t) ==
    \/ tasks[t].op = "extract" /\ tasks[t].pc = "pipeline"
    \/ tasks[t].op = "extract" /\ tasks[t].pc = "catch"
                               /\ tasks[t].err = ConditionFailedMsg
    \/ tasks[t].op = "consume" /\ tasks[t].pc = "catch"
                               /\ tasks[t].err = TypeErrorMsg

\* Task t has been admitted: it runs the extraction pipeline.
Admitted(t) == tasks[t].op = "extract" /\ tasks[t].pc = "pipeline"

\* Task t is on its failure path.
Failing(t) == tasks[t].pc = "catch"

SameDocument(t, u) ==
    /\ tasks[t].fundId = tasks[u].fundId
    /\ tasks[t].objectKey = tasks[u].objectKey

\* The statuses from which begin-processing is to be applied (4.1).
AdmitsProcessing(it) ==
    \/ it = NoItem
    \/ it.status \in {Absent, "UPLOADING", "FAILED", "CREATED", "EXTRACTED"}

\* C1: when two tasks have both made their begin-processing request for
\* the same objectKey of a fund whose record was created by an upload
\* handler, and the record shows that key as PROCESSING, exactly one of
\* the two is admitted (runs the pipeline) and the other is not on a
\* failure path (it was told "already in flight").
C1_OneAdmittedOtherInFlight ==
    \A t \in Tasks : \A u \in Tasks \ {t} :
        ( /\ Began(t) /\ Began(u) /\ SameDocument(t, u)
          /\ table[tasks[t].fundId] # NoItem
          /\ table[tasks[t].fundId].createdAt # AbsentTime
          /\ table[tasks[t].fundId].status = "PROCESSING"
          /\ table[tasks[t].fundId].objectKey = tasks[t].objectKey )
        => /\ Admitted(t) # Admitted(u)
           /\ ~Admitted(t) => ~Failing(t)
           /\ ~Admitted(u) => ~Failing(u)

\* C2: in every reachable state no fund record has both a payload and an
\* errorReason.
C2_PayloadErrorExclusive ==
    \A f \in FundIds :
        table[f] # NoItem =>
            ~(table[f].payload # AbsentJson /\ table[f].errorReason # Absent)

\* C3: a step that applies a begin-processing update (the record becomes
\* PROCESSING, or is rewritten as PROCESSING) to a record whose status is
\* unset or one of the specified statuses finds that status among
\* UPLOADING, FAILED, CREATED, EXTRACTED or unset, and leaves the record
\* PROCESSING without an errorReason.
C3_BeginGuarded ==
    [][\A f \in FundIds :
         ( /\ table'[f] # table[f]
           /\ table'[f].status = "PROCESSING"
           /\ (table[f] # NoItem =>
                  table[f].status \in SpecStatuses \cup {Absent}) )
         => /\ AdmitsProcessing(table[f])
            /\ table'[f].errorReason = Absent]_vars

\* C4: a begin-processing request that finds the record EXTRACTED with a
\* payload changes no attribute of the record and returns the
\* already-complete outcome: the HTTP handler answers 200 with the stored
\* payload, the consumer goes on to the next message without reporting a
\* failure; neither enters the pipeline.
C4_AlreadyCompleteNoOp ==
    [][\A t \in Tasks :
         ( /\ BeginRequested(t) /\ Steps(t)
           /\ table[tasks[t].fundId] # NoItem
           /\ table[tasks[t].fundId].status = "EXTRACTED"
           /\ table[tasks[t].fundId].payload # AbsentJson )
         => /\ table' = table
            /\ tasks[t].op = "extract" =>
                 /\ tasks'[t] = Idle
                 /\ returned'.code = 200
                 /\ returned'.body = Parse(table[tasks[t].fundId].payload)
            /\ tasks[t].op = "consume" =>
                 /\ tasks'[t].pc = "loop"
                 /\ tasks'[t].failures = tasks[t].failures]_vars

\* C5: a consumer message that finds the record PROCESSING with the
\* message's own objectKey is a no-op: the record is unchanged, the
\* consumer goes on to the next message, the message is not reported as
\* failed.
C5_InFlightNoOp ==
    [][\A t \in Tasks :
         ( /\ tasks[t].op = "consume" /\ BeginRequested(t) /\ Steps(t)
           /\ table[tasks[t].fundId] # NoItem
           /\ table[tasks[t].fundId].status = "PROCESSING"
           /\ table[tasks[t].fundId].objectKey = tasks[t].objectKey )
         => /\ table' = table
            /\ tasks'[t].pc = "loop"
            /\ tasks'[t].failures = tasks[t].failures]_vars

\* C6: a consumer message that finds the record PROCESSING with another
\* objectKey is a collision: the new document is not admitted (the record
\* never shows the message's objectKey as PROCESSING), and when the record
\* is marked FAILED for it the reason is "processing collision".
CollisionMsg == "processing collision"

C6_CollisionFails ==
    [][\A t \in Tasks :
         ( /\ tasks[t].op = "consume" /\ BeginRequested(t) /\ Steps(t)
           /\ table[tasks[t].fundId] # NoItem
           /\ table[tasks[t].fundId].status = "PROCESSING"
           /\ table[tasks[t].fundId].objectKey # AbsentKey
           /\ table[tasks[t].fundId].objectKey # tasks[t].objectKey )
         => /\ ~( /\ table'[tasks[t].fundId].status = "PROCESSING"
                  /\ table'[tasks[t].fundId].objectKey = tasks[t].objectKey )
            /\ tasks'[t].pc = "catch" => tasks'[t].err = CollisionMsg]_vars

\* The edges of the status state machine (3, 4.1), with the direct
\* admission of CREATED/UPLOADING that the begin-processing guard allows.
Edges ==
    ({"CREATED", "UPLOADING"} \X {"UPLOADED", "PROCESSING"})
    \cup {<<"UPLOADED", "PROCESSING">>, <<"PROCESSING", "EXTRACTED">>,
          <<"PROCESSING", "FAILED">>, <<"EXTRACTED", "PROCESSING">>,
          <<"FAILED", "PROCESSING">>}

\* C7: every change of the status of an existing fund record whose status
\* is one of the specified statuses follows an edge of the state machine.
C7_StatusFollowsEdges ==
    [][\A f \in FundIds :
         ( /\ table[f] # NoItem
           /\ table[f].status \in SpecStatuses
           /\ table'[f].status # table[f].status )
         => <<table[f].status, table'[f].status>> \in Edges]_vars

\* C8: a begin-processing request for a record whose status is UPLOADED
\* is admitted: the task goes on towards the pipeline and is not put on a
\* failure path.
C8_UploadedAdmitted ==
    [][\A t \in Tasks :
         ( /\ BeginPending(t) /\ Steps(t)
           /\ table[tasks[t].fundId] # NoItem
           /\ table[tasks[t].fundId].status = "UPLOADED" )
         => tasks'[t].pc \in {"begin", "pipeline"}]_vars

\* C9: every existing fund record has a status, and it is one of CREATED,
\* UPLOADING, UPLOADED, PROCESSING, EXTRACTED, SUCCEEDED, FAILED.
C9_StatusInEnum ==
    \A f \in FundIds : table[f] # NoItem => table[f].status \in SpecStatuses

\* C10: whenever a fund record is EXTRACTED and names an objectKey, its
\* payload was extracted from the document that objectKey names.
C10_PayloadOfRecordedDocument ==
    \A f \in FundIds :
        (table[f] # NoItem /\ table[f].status = "EXTRACTED"
            /\ table[f].payload # AbsentJson
            /\ table[f].objectKey # AbsentKey)
        => Parse(table[f].payload).src = table[f].objectKey

\* C11: in every reachable state a fund record that carries an errorReason
\* has status FAILED.
C11_ErrorReasonOnlyWhenFailed ==
    \A f \in FundIds :
        (table[f] # NoItem /\ table[f].errorReason # Absent)
        => table[f].status = "FAILED"

\* C12: in every reachable state a fund record that carries a payload has
\* status EXTRACTED or SUCCEEDED.
C12_PayloadOnlyWhenSucceeded ==
    \A f \in FundIds :
        (table[f] # NoItem /\ table[f].payload # AbsentJson)
        => table[f].status \in {"EXTRACTED", "SUCCEEDED"}

\* C13: every step that stores a result location in a fund record (the
\* record gets a resultPath it did not have) is the step that records a
\* success: it leaves the record EXTRACTED or SUCCEEDED.
C13_ResultLocationOnlyOnSuccess ==
    [][\A f \in FundIds :
         ( /\ table'[f] # NoItem
           /\ table'[f].resultPath # AbsentKey
           /\ table'[f].resultPath # Existing(f).resultPath )
         => table'[f].status \in {"EXTRACTED", "SUCCEEDED"}]_vars

\* C14: once a fund record has a createdAt value, no step changes or
\* removes it.
C14_CreatedAtSetOnce ==
    [][\A f \in FundIds :
         (table[f] # NoItem /\ table[f].createdAt # AbsentTime)
         => table'[f].createdAt = table[f].createdAt]_vars

\* C15: when a record-creating handler (presigned-upload initiation,
\* prefix-based initiation, direct upload) runs for an identifier that
\* already has a record, it does not answer success and the existing record
\* is unchanged.
C15_CreateOnExistingFails ==
    [][\A f \in FundIds :
         ( /\ table[f] # NoItem
           /\ returned'.op \in {"create", "init", "upload"}
           /\ returned'.fundId = f
           /\ invocations' # invocations )
         => /\ table'[f] = table[f]
            /\ returned'.code # 200]_vars

\* ---------------------------------------------------- queue consumers
\* The handlers that SQS invokes with a batch of records.
SqsOps == {"consume", "batched", "processor"}

\* The record just read is one whose parsing or validation raises.
Raises(op, m) ==
    IF op = "consume"
       THEN ~m.parses \/ ~m.object \/ Route(m) \notin {"process", "skip"}
       ELSE ~ValidBody(m)

\* C16: every step of a queue consumer keeps the batch report exact.  No
\* exception ends the invocation (so the following records are still
\* processed); reading a record advances the position by exactly one;
\* a record that is finished within the step that read it is added to the
\* report if and only if it raised; a record that reached the catch is
\* added once; no other step changes the report; and what is returned is
\* the report as built.
C16_BatchReportExact ==
    [][\A t \in Tasks :
         (tasks[t].op \in SqsOps /\ Steps(t)) =>
            /\ returned'.code # 500
            /\ received' # NoMessage =>
                 /\ tasks'[t].op = tasks[t].op
                 /\ tasks'[t].n = tasks[t].n + 1
                 /\ tasks'[t].pc = "loop" =>
                      tasks'[t].failures =
                         IF Raises(tasks[t].op, received')
                            THEN Append(tasks[t].failures, tasks'[t].n)
                            ELSE tasks[t].failures
                 /\ tasks'[t].pc # "loop" =>
                      tasks'[t].failures = tasks[t].failures
            /\ tasks[t].pc = "catch" =>
                 /\ tasks'[t].pc = "loop"
                 /\ tasks'[t].n = tasks[t].n
                 /\ tasks'[t].failures = Append(tasks[t].failures, tasks[t].n)
            /\ tasks[t].pc = "begin" =>
                 /\ tasks'[t].n = tasks[t].n
                 /\ tasks'[t].failures = tasks[t].failures
            /\ (received' = NoMessage /\ tasks[t].pc = "loop") =>
                 /\ tasks'[t] = Idle
                 /\ returned'.n = tasks[t].n
                 /\ returned'.failures = tasks[t].failures]_vars

\* The failure reasons that come from a fund's own document and from the
\* services' results for it.
OwnResults ==
    {StageError(k) : k \in ThrowingStages} \cup {InvalidJsonMsg, SchemaFailedMsg}

\* C17: in every step the consumer takes for a message, the record of
\* every fund other than the message's is unchanged; and a complete message
\* of the implemented type is reported failed only for a failure of its own
\* document or of the services' results for it (so that in a batch over
\* distinct funds in which one message raises, the other messages are not
\* in the report and their funds end as their own inputs decide).
C17_FailureIsolatedPerFund ==
    [][\A t \in Tasks :
         (tasks[t].op = "consume" /\ Steps(t)) =>
            LET f == IF received' # NoMessage THEN received'.fundId
                                              ELSE tasks[t].fundId IN
            /\ \A g \in BatchFundIds \ {f} : table'[g] = table[g]
            /\ (tasks[t].pc = "catch" /\ tasks[t].documentType = "icmemo")
                  => tasks[t].err \in OwnResults]_vars

\* C18: a step that reads a record whose body does not parse leaves every
\* fund record unchanged, adds the record's identifier to the failure
\* report, and leaves the consumer in its loop, ready for the next record.
C18_UnparseableReported ==
    [][\A t \in Tasks :
         ( /\ tasks[t].op \in SqsOps /\ Steps(t)
           /\ received' # NoMessage /\ ~received'.parses )
         => /\ table' = table
            /\ tasks'[t].op = tasks[t].op
            /\ tasks'[t].pc = "loop"
            /\ tasks'[t].failures =
                  Append(tasks[t].failures, tasks[t].n + 1)]_vars

\* A complete message of the per-document consumer.
Complete(m) ==
    m.parses /\ m.object /\ m.fundId # "" /\ m.documentType # ""
             /\ m.key # AbsentKey

\* C19: a complete message whose documentType is none of the known types
\* is reported failed, and neither the step that reads it nor the step that
\* reports it changes any fund record.
C19_UnrecognizedLeavesRecord ==
    [][\A t \in Tasks :
         (tasks[t].op = "consume" /\ Steps(t)) =>
            /\ ( /\ received' # NoMessage /\ Complete(received')
                 /\ ToLowerCase(received'.documentType) \notin
                       {"icmemo", "ima", "sideletter", "lpa", "ppm", "subdoc"} )
               => /\ table' = table
                  /\ \/ /\ tasks'[t].pc = "catch"
                        /\ tasks'[t].err = "Unsupported documentType"
                     \/ /\ tasks'[t].pc = "loop"
                        /\ tasks'[t].failures =
                              Append(tasks[t].failures, tasks'[t].n)
            /\ ( /\ tasks[t].pc = "catch"
                 /\ tasks[t].err = "Unsupported documentType" )
               => /\ table' = table
                  /\ tasks'[t].failures =
                        Append(tasks[t].failures, tasks[t].n)]_vars

\* C20: a step that reads a complete message whose documentType is ima,
\* sideletter, lpa, ppm or subdoc (in any letter case, with surrounding
\* blanks) finishes the message within the step: no fund record is changed
\* or created, the failure report is unchanged, the invocation goes on
\* with the next record and no pipeline stage is entered.
C20_NotImplementedSkipped ==
    [][\A t \in Tasks :
         ( /\ tasks[t].op = "consume" /\ Steps(t)
           /\ received' # NoMessage /\ Complete(received')
           /\ ToLowerCase(received'.documentType) \in
                 {"ima", "sideletter", "lpa", "ppm", "subdoc"} )
         => /\ table' = table
            /\ tasks'[t].op = "consume"
            /\ tasks'[t].pc = "loop"
            /\ tasks'[t].n = tasks[t].n + 1
            /\ tasks'[t].failures = tasks[t].failures
            /\ returned' = Nothing]_vars

\* A not-implemented message for a fund that has a record has just been
\* read as the second record of a batch whose first record failed.
C20_Witness ==
    \E t \in Tasks :
        /\ tasks[t].op = "consume" /\ tasks[t].pc = "loop"
        /\ tasks[t].n = 2 /\ tasks[t].failures = <<1>>
        /\ received # NoMessage /\ Complete(received)
        /\ received.documentType = " Ima "
        /\ table[received.fundId] # NoItem
        /\ table[received.fundId].status = "FAILED"

\* C21: a step in which the consumer applies begin-processing for a complete
\* icmemo message to an existing record whose status admits processing
\* leaves the record PROCESSING for the message's document and takes the
\* task on into the pipeline: it is not put on the failure path before any
\* stage has run (so that, every stage succeeding, the message ends with
\* the record EXTRACTED and is not reported failed).
C21_IcmemoRunsPipeline ==
    [][\A t \in Tasks :
         ( /\ tasks[t].op = "consume" /\ tasks[t].pc = "begin" /\ Steps(t)
           /\ tasks[t].documentType = "icmemo"
           /\ table[tasks[t].fundId] # NoItem
           /\ AdmitsProcessing(table[tasks[t].fundId]) )
         => /\ table'[tasks[t].fundId].status = "PROCESSING"
            /\ table'[tasks[t].fundId].objectKey = tasks[t].objectKey
            /\ tasks'[t].pc # "catch"]_vars

\* The record just read parses and lacks a field its consumer requires.
LacksField(op, m) ==
    m.parses /\ IF op = "consume" THEN ~Complete(m)
                ELSE m.fundId = "" \/ ~m.complete

\* The errors the validation of the per-document consumer throws.
ValidationErrors ==
    {"Missing fundId in SQS message", "Missing documentType in SQS message",
     "Missing key (objectKey) in SQS message"}

ExtractionOps == {"extract", "legacy"}

\* C23: a step in which a stage of the pipeline fails (the task leaves the
\* pipeline without the success answer) stores no payload, and either
\* leaves the record FAILED with the reason of a stage failure or hands the
\* failure to the handler's catch; and a step of the catch that writes the
\* record for a stage failure leaves it FAILED with that stage's reason.
\* This holds in every extraction handler.
C23_StageFailureMarksFailed ==
    [][\A t \in Tasks :
         (tasks[t].op \in ExtractionOps /\ Steps(t)) =>
            LET f == tasks[t].fundId IN
            /\ (tasks[t].pc = "pipeline" /\ returned'.code # 200)
               => /\ table'[f] # NoItem
                  /\ table'[f].payload = Existing(f).payload
                  /\ \/ tasks'[t].pc = "catch" /\ tasks'[t].err # ""
                     \/ /\ table'[f].status = "FAILED"
                        /\ table'[f].errorReason \in OwnResults
            /\ ( /\ tasks[t].pc = "catch" /\ tasks[t].err \in OwnResults
                 /\ table' # table )
               => /\ table'[f].status = "FAILED"
                  /\ table'[f].errorReason = tasks[t].err]_vars

\* C24: a step in which an extraction handler answers for a model text that
\* is not valid JSON leaves the fund record FAILED with the reason "Model
\* output was not valid JSON" and without a payload.
C24_InvalidJsonMarksFailed ==
    [][\A t \in Tasks :
         ( /\ tasks[t].op \in ExtractionOps /\ tasks[t].pc = "pipeline"
           /\ Steps(t)
           /\ returned'.stages = 6 /\ returned'.code = 500 )
         => LET f == tasks[t].fundId IN
            /\ table'[f] # NoItem
            /\ table'[f].status = "FAILED"
            /\ table'[f].errorReason = InvalidJsonMsg
            /\ table'[f].payload = AbsentJson]_vars

C26_MarkFailedBestEffort ==
    [][\A t \in Tasks :
         ( /\ tasks[t].op \in {"extract", "consume"} /\ Steps(t)
           /\ \/ tasks[t].pc = "catch"
              \/ /\ tasks[t].pc = "pipeline"
                 /\ (returned'.stages = 6 \/ tasks'[t].stages = 6) )
         => /\ tasks'[t].pc # "catch"
            /\ tasks[t].op = "extract" =>
                 /\ tasks'[t] = Idle
                 /\ returned'.code = 500
            /\ tasks[t].op = "consume" =>
                 /\ tasks'[t].pc = "loop"
                 /\ tasks'[t].n = tasks[t].n
                 /\ tasks'[t].failures = Append(tasks[t].failures, tasks[t].n)
                 /\ returned' = Nothing]_vars

\* C27: whenever a fund record is PROCESSING, it is EXTRACTED or FAILED at
\* some later time.
C27_ProcessingEnds ==
    \A f \in FundIds :
        (table[f] # NoItem /\ table[f].status = "PROCESSING")
        ~> (table[f] # NoItem /\ table[f].status \in {"EXTRACTED", "FAILED"})

\* C28: a step in which upload completion lists the upload namespace of a
\* fund that has a record and finds no object, or the zero-byte marker
\* only, ends the call with 400 "No documents uploaded yet": no record is
\* changed and no processing job is sent.
C28_NoDocumentsRejected ==
    [][\A t \in Tasks :
         ( /\ tasks[t].op = "complete" /\ tasks[t].pc = "get" /\ Steps(t)
           /\ table[tasks[t].fundId] # NoItem
           /\ bucket[tasks[t].fundId].files = 0 )
         => /\ tasks'[t] = Idle
            /\ returned'.op = "complete" /\ returned'.code = 400
            /\ table' = table
            /\ sent' = NoJob]_vars

\* Upload completion has just answered 400 for a fund that has a record
\* and whose namespace holds the zero-byte marker only.
C28_Witness ==
    /\ returned.op = "complete" /\ returned.code = 400
    /\ table[returned.fundId] # NoItem
    /\ bucket[returned.fundId].marker
    /\ bucket[returned.fundId].files = 0
    /\ sent = NoJob

\* C29: in every step of upload completion: a fund without a record gets
\* no record and no job; the manifest the call goes on with lists exactly
\* the documents (non-empty objects) under the fund's files/ prefix; the
\* update leaves the record UPLOADED with that manifest and sends nothing;
\* a job is sent only by the step after the update, it carries the
\* manifest, and the call answers 200 exactly when it has sent the job.
C29_CompletionManifestExact ==
    [][\A t \in Tasks :
         (tasks[t].op = "complete" /\ Steps(t)) =>
            LET f == tasks[t].fundId IN
            /\ table[f] = NoItem => (table'[f] = NoItem /\ sent' = NoJob)
            /\ (tasks[t].pc = "get" /\ tasks'[t].pc = "store")
               => tasks'[t].files = listKeys(bucket[f])
            /\ (tasks[t].pc = "store" /\ table[f] # NoItem)
               => /\ table'[f].status = "UPLOADED"
                  /\ table'[f].inputFiles = tasks[t].files
                  /\ sent' = NoJob
                  /\ tasks'[t].pc = "send"
            /\ sent' # NoJob
               => /\ tasks[t].pc = "send"
                  /\ sent'.fundId = f
                  /\ sent'.inputFiles = tasks[t].files
                  /\ table' = table
            /\ (returned'.code = 200) <=> (sent' # NoJob)]_vars

\* C30: a fund init that answers 200 for a fund whose files/ prefix holds
\* documents of an earlier attempt leaves no document under files/ and
\* has added a copy of each under the archive prefix, together with the
\* update of the record.
C30_EarlierUploadsArchived ==
    [][\A f \in BatchFundIds :
         ( /\ returned'.op = "init" /\ returned'.fundId = f
           /\ returned'.code = 200
           /\ bucket[f].files > 0 )
         => /\ bucket'[f].files = 0
            /\ bucket'[f].archive = bucket[f].archive + bucket[f].files
            /\ table'[f] = upsertFundRecord(f)]_vars

\* The groups one after the other.
RECURSIVE Flatten(_)
Flatten(groups) ==
    IF Len(groups) = 0 THEN <<>> ELSE groups[1] \o Flatten(Tail(groups))

\* The places of document d in the groups.
PlacesOf(d, groups) ==
    {p \in (DOMAIN groups) \X (1..5) :
        p[2] <= Len(groups[p[1]]) /\ groups[p[1]][p[2]] = d}

\* The object at key under the results/ prefix of namespace b.
ObjectsAt(b, key) == {o \in b.results : o.key = key}

\* C31: whenever a batched consumer has built the manifest for a job with
\* n >= 1 input files, the manifest is the schema document followed by the
\* n sources in order; its groups are ceil((n+1)/5) in number, of at most
\* 5 documents each and of exactly 5 but for the last, consecutive, and
\* every document is in exactly one group; the inference calls issued so
\* far are, one each and in order, for the first groups; and the step that
\* writes the result has issued exactly one call per group and writes the
\* group outputs in group order with the separator between any two.
C31_ManifestGrouped ==
    [][\A t \in Tasks :
         /\ (tasks'[t].op \in FundJobOps /\ tasks'[t].pc = "infer") =>
               LET tk == tasks'[t] n == Len(tk.files) IN
               /\ n >= 1
               /\ Len(tk.docs) = n + 1
               /\ tk.docs[1] = SchemaDocument
               /\ \A i \in 1..n : tk.docs[i + 1].uri = tk.files[i]
               /\ Len(tk.batches) = (n + 1 + 4) \div 5
               /\ \A g \in DOMAIN tk.batches :
                     /\ Len(tk.batches[g]) <= 5
                     /\ g < Len(tk.batches) => Len(tk.batches[g]) = 5
               /\ Flatten(tk.batches) = tk.docs
               /\ \A i \in DOMAIN tk.docs :
                     Cardinality(PlacesOf(tk.docs[i], tk.batches)) = 1
               /\ Len(tk.calls) = Len(tk.outputs)
               /\ Len(tk.calls) <= Len(tk.batches)
               /\ \A i \in DOMAIN tk.calls : tk.calls[i] = tk.batches[i]
         /\ ( /\ tasks[t].op \in FundJobOps /\ tasks[t].pc = "infer"
              /\ bucket' # bucket ) =>
               LET tk == tasks[t] g == Len(tk.batches) IN
               /\ tk.calls = tk.batches
               /\ \E o \in ObjectsAt(bucket'[tk.fundId], OutputKey) :
                     /\ Len(o.body) = 2 * g - 1
                     /\ \A i \in 1..g : o.body[2 * i - 1] = tk.outputs[i]
                     /\ \A i \in 1..(g - 1) : o.body[2 * i] = Separator]_vars

\* The batched consumer has written the result of a job of 11 input files
\* in descending order: three groups, whose outputs "a", "", "a" are in
\* the result with a separator after the first and after the second.
C31_Witness ==
    \E t \in Tasks :
        /\ tasks[t].op = "batched" /\ tasks[t].pc = "status"
        /\ Len(tasks[t].files) = 11 /\ tasks[t].files[1] = 11
        /\ Len(tasks[t].batches) = 3 /\ Len(tasks[t].batches[3]) = 2
        /\ tasks[t].outputs = <<"a", "", "a">>
        /\ \E o \in ObjectsAt(bucket[tasks[t].fundId], OutputKey) :
              o.body = <<"a", Separator, "", Separator, "a">>

\* C32: a succeeded event is sent only by the batched consumer at the end
\* of a job whose result object is written and whose fund record is
\* SUCCEEDED with the location of that object; the event names the fund,
\* lists the input locations of the job's message and the output
\* location; and a step in which an inference call or the result write
\* fails ends the invocation without an event.
C32_SucceededEventLast ==
    [][/\ sent' # NoJob =>
            \E t \in Tasks :
               LET tk == tasks[t] f == tk.fundId IN
               /\ tk.op = "batched" /\ tk.pc = "notify" /\ Steps(t)
               /\ ObjectsAt(bucket[f], OutputKey) # {}
               /\ table[f] # NoItem
               /\ table[f].status = "SUCCEEDED"
               /\ table[f].resultPath = <<f, OutputKey>>
               /\ sent' = [fundId |-> f, inputFiles |-> tk.files,
                           outputFiles |-> <<<<f, OutputKey>>>>,
                           status |-> "SUCCEEDED"]
       /\ \A t \in Tasks :
            ( /\ tasks[t].op = "batched" /\ tasks[t].pc = "infer" /\ Steps(t)
              /\ returned'.code = 500 )
            => sent' = NoJob /\ tasks'[t] = Idle]_vars

\* The succeeded event of a job of 11 input files has just been sent, for
\* a fund whose record is SUCCEEDED and names the result object.
C32_Witness ==
    /\ sent # NoJob
    /\ sent.status = "SUCCEEDED"
    /\ Len(sent.inputFiles) = 11
    /\ sent.outputFiles = <<<<sent.fundId, OutputKey>>>>
    /\ table[sent.fundId] # NoItem
    /\ table[sent.fundId].status = "SUCCEEDED"
    /\ table[sent.fundId].resultPath = <<sent.fundId, OutputKey>>
    /\ ObjectsAt(bucket[sent.fundId], OutputKey) # {}

\* The text contains "WATERMARK" in some letter case.
HasWatermark(txt) == txt \in {"Draft watermark", "WATERMARK COPY"}

\* C33: in a run of the HTTP handler whose OCR text is the empty string,
\* the inference request is the prompt with the schema in it, and the
\* step that ends the run answers the caller (no exception leaves the
\* handler) with the record EXTRACTED, or FAILED with the reason of the
\* schema validation.
C33_EmptyOcrStillInfers ==
    [][\A t \in Tasks :
         ( /\ tasks[t].op = "extract" /\ tasks[t].request # AbsentJson
           /\ tasks[t].text = <<>> /\ Steps(t) )
         => LET f == tasks[t].fundId IN
            /\ tasks[t].request = userPrompt("schema", <<>>)
            /\ tasks'[t] = Idle =>
                 /\ returned'.op = "extract"
                 /\ \/ /\ returned'.code = 200
                       /\ table'[f].status = "EXTRACTED"
                    \/ /\ table'[f].status = "FAILED"
                       /\ table'[f].errorReason = SchemaFailedMsg]_vars

\* C36: in every extraction handler, the text that goes into the inference
\* request is made of the texts of exactly the LINE blocks whose text does
\* not contain "WATERMARK" in any letter case, in the order of the blocks,
\* with a newline between any two.
C36_OcrTextFiltered ==
    \A t \in Tasks :
        ( /\ tasks[t].op \in ExtractionOps /\ tasks[t].pc = "pipeline"
          /\ tasks[t].stages = 4 )
        => /\ tasks[t].text =
                Concat(Join(SelectSeq(TextsOf(LineBlocks(tasks[t].blocks)),
                                      LAMBDA txt : ~HasWatermark(txt)),
                            "\n"))
           /\ tasks[t].request.text = tasks[t].text

\* C34: a step in which the HTTP handler ends a successful extraction
\* (answer 200 with the validated object) leaves the record with a payload
\* that reads back as that object and with a resultKey at which an object
\* is stored that reads back as that object too; that object was stored
\* before the step that makes the record point to it.
C34_ResultRoundTrip ==
    [][\A t \in Tasks :
         ( /\ tasks[t].op = "extract" /\ tasks[t].pc = "pipeline" /\ Steps(t)
           /\ returned'.code = 200 )
         => LET f == tasks[t].fundId x == returned'.body IN
            /\ x.conforms
            /\ Parse(table'[f].payload) = x
            /\ table'[f].resultKey # AbsentKey
            /\ \E o \in ObjectsAt(bucket[f], table'[f].resultKey) :
                  Parse(o.body) = x]_vars

\* The handlers that process a document or a job.
ProcessingOps == {"consume", "extract", "legacy", "batched", "processor"}

\* C35: no step of a processing handler gives a record to a fund that has
\* none.
C35_ProcessingCreatesNoRecord ==
    [][\A f \in BatchFundIds :
         ( /\ table[f] = NoItem
           /\ \E t \in Tasks : tasks[t].op \in ProcessingOps /\ Steps(t) )
         => table'[f] = NoItem]_vars

\* C38: a task whose conditional begin-processing update was rejected, while
\* the record of its fund is PROCESSING or EXTRACTED for the same objectKey
\* (another task was admitted first), takes no step that changes a record.
C38_RejectedAdmissionWritesNothing ==
    [][\A t \in Tasks :
         LET f == tasks[t].fundId IN
         ( /\ tasks[t].pc = "catch" /\ tasks[t].err = ConditionFailedMsg
           /\ table[f] # NoItem
           /\ table[f].status \in {"PROCESSING", "EXTRACTED"}
           /\ table[f].objectKey = tasks[t].objectKey
           /\ Steps(t) )
         => table' = table]_vars

\* C40: in every reachable state a fund record whose status is EXTRACTED
\* has a payload.
C40_ExtractedHasPayload ==
    \A f \in FundIds :
        (table[f] # NoItem /\ table[f].status = "EXTRACTED")
        => table[f].payload # AbsentJson

\* The HTTP handler has just answered 200 with the object it extracted, and
\* the record is EXTRACTED with that object as its payload.
C40_Witness ==
    /\ returned.op = "extract" /\ returned.code = 200
    /\ returned.stages = 7
    /\ table[returned.fundId] # NoItem
    /\ table[returned.fundId].status = "EXTRACTED"
    /\ table[returned.fundId].payload = Stringify(returned.body)

\* C37: no step removes or changes a result object: every result object of
\* a fund that is stored before a step is stored after it, under the same
\* key and with the same content.
C37_ResultsNeverOverwritten ==
    [][\A f \in FundIds :
         \A o \in bucket[f].results : o \in bucket'[f].results]_vars

\* The document k has a copy under "<fundId>/archive/".
Archived(b, k) == \E c \in b.copies : c.name = k

\* C39: no step of archiveFiles loses a document: a document that is under
\* files/ or has an archive copy before the step is under files/ or has an
\* archive copy after it; no archive copy disappears; and a step that
\* deletes a document is taken only when every listed key has its copy.
C39_ArchiveLosesNothing ==
    [][\A t \in Tasks : tasks[t].op = "archive" =>
         LET b == bucket[tasks[t].fundId] c == bucket'[tasks[t].fundId] IN
         /\ b.copies \subseteq c.copies
         /\ \A k \in 1..b.files :
               InFiles(b, k) => (InFiles(c, k) \/ Archived(c, k))
         /\ c.deleted # b.deleted =>
               \A j \in DOMAIN tasks[t].files : Archived(b, tasks[t].files[j])
      ]_vars

\* archiveFiles has deleted the first 1000 of 1001 documents and not yet the
\* last one; every one of them has its copy.
C39_Witness ==
    \E t \in Tasks :
        LET b == bucket[tasks[t].fundId] IN
        /\ tasks[t].op = "archive" /\ tasks[t].pc = "delete"
        /\ tasks[t].i = DeleteBatch
        /\ Len(tasks[t].files) = DeleteBatch + 1
        /\ b.deleted = DeleteBatch /\ InFiles(b, DeleteBatch + 1)
        /\ \A k \in 1..b.files : Archived(b, k)

====
